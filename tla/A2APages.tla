------------------------------ MODULE A2APages ------------------------------
(***************************************************************************)
(* The table of A2A tasks as ListTasks reads it (server.rs): retained      *)
(* tasks in the order of their arrival, the eviction of the oldest settled *)
(* one, and a client that reads page after page while tasks come and go.   *)
(* The page token is an offset into the listing, newest first, of the      *)
(* tasks that match the client's filters: a contextId and a status, each   *)
(* of which may be absent.  Of a task's status it matters whether it is    *)
(* the one asked for and that it changes: two stand for the server's.      *)
(***************************************************************************)
EXTENDS A2ATable

CONSTANTS TaskId,        \* identifiers, one for each task ever started
          Conversation,  \* the tasks with the contextId a client may ask for
          MaxRetained,   \* MAX_RETAINED_TASKS
          MaxActive,     \* MAX_ACTIVE_TASKS
          PageSize       \* the pageSize the client asks for

\* The limits of the table and the size of a page are numbers.
ASSUME TableAssumption ==
  /\ MaxRetained \in Nat /\ MaxActive \in Nat /\ PageSize \in Nat
  /\ Conversation \subseteq TaskId

VARIABLES table,     \* retained tasks, oldest first
          ended,     \* tasks that are settled
          walk       \* the client: its filters, where it is, what it saw, what it must see

pageVars == <<table, ended, walk>>

Status == {"open", "ended"}

\* filter(context) and filter(status): the tasks a request with the walk's filters
\* is about, when those of done are settled.
Matching(w, done) ==
  {t \in w.among : (IF t \in done THEN "ended" ELSE "open") \in w.states}

PagesTypeOK ==
  /\ table \in Seq(TaskId) /\ ended \subseteq TaskId
  /\ walk \in [pc : {"none", "walking", "done"}, among : SUBSET TaskId,
               states : SUBSET Status, offset : Nat, seen : SUBSET TaskId,
               due : SUBSET TaskId, slipped : BOOLEAN]

PagesInit ==
  /\ table = <<>> /\ ended = {}
  /\ walk = [pc |-> "none", among |-> TaskId, states |-> Status, offset |-> 0,
             seen |-> {}, due |-> {}, slipped |-> FALSE]

\* Whether a listing lost a task and none came into it: what is behind moves up.
Shrinks(before, after) == before \ after # {} /\ after \ before = {}

\* The walk after a step of the table, in which it takes no part: it is noted
\* whether the listing it reads shrank under it.
WalkAfter(kept, done) ==
  [walk EXCEPT !.slipped = @ \/ /\ walk.pc = "walking"
                                /\ Shrinks(Listed(table, Matching(walk, ended)),
                                           Listed(kept, Matching(walk, done)))]

\* start: refused when too many tasks are running.
TaskEnters(t) ==
  /\ t \notin ToSet(table) \cup ended
  /\ Cardinality(ToSet(table) \ ended) < MaxActive
  /\ table' = Append(MakeRoom(table, ended, MaxRetained), t)
  /\ walk' = WalkAfter(table', ended)
  /\ UNCHANGED ended

TaskSettles(t) ==
  /\ t \in ToSet(table) \ ended
  /\ ended' = ended \cup {t}
  /\ walk' = WalkAfter(table, ended')
  /\ UNCHANGED table

\* The first request names the filters; those that follow repeat them.
ListBegins(among, states) ==
  /\ walk.pc # "walking"
  /\ walk' = [pc |-> "walking", among |-> among, states |-> states, offset |-> 0, seen |-> {},
              due |-> Listed(table, Matching([among |-> among, states |-> states], ended)),
              slipped |-> FALSE]
  /\ UNCHANGED <<table, ended>>

\* The next page is asked for as long as the answer names a token.
ListPage ==
  /\ walk.pc = "walking"
  /\ LET matching == Matching(walk, ended)
         page     == Page(table, matching, walk.offset, PageSize)
         next     == walk.offset + Cardinality(page)
     IN  walk' = [walk EXCEPT
                    !.offset = next, !.seen = @ \cup page,
                    !.due = @ \cap Listed(table, matching),
                    !.pc = IF next < Cardinality(Listed(table, matching)) THEN "walking"
                           ELSE "done"]
  /\ UNCHANGED <<table, ended>>

PagesNext ==
  \/ \E t \in TaskId : TaskEnters(t) \/ TaskSettles(t)
  \/ \E among \in {TaskId, Conversation}, states \in {Status, {"open"}, {"ended"}} :
        ListBegins(among, states)
  \/ ListPage

PagesSpec == PagesInit /\ [][PagesNext]_pageVars

\* A walk over the pages of ListTasks sees every task that was listed when it began
\* and still is. Without filters that is so whatever happens between two pages: an
\* eviction shifts the listing by one only together with an arrival. With a
\* contextId or a status the listing may shrink under the walk, by an eviction for
\* a task it does not list or by a task that settles, and what moved up over the
\* offset is not seen; a walk whose listing did not shrink misses nothing.
PagesMissNothing ==
  /\ walk.pc = "done" /\ ~walk.slipped => walk.due \subseteq walk.seen
  /\ walk.among = TaskId /\ walk.states = Status => ~walk.slipped

=============================================================================
