------------------------------ MODULE Confine ------------------------------
(***************************************************************************)
(* The native confinement of a coding agent (confine.rs of cuma-           *)
(* workspace): one profile, rendered for bubblewrap as a list of mounts in *)
(* which a later one hides what it covers, for firejail and sandbox-exec   *)
(* as rules, and for ai-jail as the paths to map into a profile of its     *)
(* own. What a runtime makes of its arguments is external: here, what the  *)
(* agent may then do with the machine's file or directory at a path.       *)
(*                                                                         *)
(* A path is the sequence of its names, symbolic links resolved. The       *)
(* layout of the machine (where home, the workspace, its repository, the   *)
(* configured writable paths, the paths the agent's command names, CUMA's  *)
(* executable and resolv.conf are) is what varies.                         *)
(***************************************************************************)
EXTENDS Naturals, Sequences, SequencesExt, FiniteSets

CONSTANTS Layout,  \* the machines: records of home, workspace, git, extra, command, exe, resolv
          HomeDot, \* [dot entry of home -> "hidden", "writable" or "readable"]
          Probe    \* paths the agent may try, relative to home or absolute

VARIABLES layout, runtime, grants

confineVars == <<layout, runtime, grants>>

Runtime == {"ai-jail", "bubblewrap", "firejail", "sandbox-exec"}
ByRules == {"firejail", "sandbox-exec"}

\* What is granted; "own" is what ai-jail's own profile makes of a path CUMA does
\* not map.
Access == {"none", "read", "write", "own"}
Inside(p, root) == IsPrefix(root, p)

\* Profile::for_workspace: the dot entries of home by kind.
Home(l, kind) == {Append(l.home, n) : n \in {x \in DOMAIN HomeDot : HomeDot[x] = kind}}
Writable(l) == {l.workspace} \cup l.git \cup Home(l, "writable") \cup l.extra
SystemName == {"usr", "bin", "sbin", "lib", "lib32", "lib64", "etc", "opt", "nix", "sys"}
System == {<<n>> : n \in SystemName}

\* The entries of home the profile sorts have names that start with a dot, so none
\* is a directory of the system.  Name is any set of names that has those of the
\* system.
LayoutAssumption(Name) ==
  /\ SystemName \cup {"tmp", "run"} \subseteq Name
  /\ Probe \subseteq Seq(Name)
  /\ DOMAIN HomeDot \subseteq Name /\ DOMAIN HomeDot \cap (SystemName \cup {"tmp", "run"}) = {}
  /\ Layout \subseteq [home : Seq(Name), workspace : Seq(Name), git : SUBSET Seq(Name),
                       extra : SUBSET Seq(Name), command : SUBSET Seq(Name),
                       exe : SUBSET Seq(Name), resolv : SUBSET Seq(Name)]

-----------------------------------------------------------------------------
\* CUMA's executable, where the private home would hide it; resolv.conf, where the
\* private /run or /tmp would; and what the command names and no mount shows yet.
ShownExe(l) ==
  {e \in l.exe : /\ Inside(e, l.home) /\ Len(l.home) < Len(e)
                 /\ e[Len(l.home) + 1] \notin DOMAIN HomeDot /\ ~Inside(e, l.workspace)}
ShownResolv(l) == {r \in l.resolv : Inside(r, <<"run">>) \/ Inside(r, <<"tmp">>)}
BwrapShows(l, p) ==
  \E root \in System \cup Home(l, "readable") \cup Writable(l) : Inside(p, root)
ShownCommand(l) == {c \in l.command : ~BwrapShows(l, c)}

\* Credentials inside the workspace come with it.
RehiddenNever(l) == {h \in Home(l, "hidden") : l.home = <<"nowhere">>}
Rehidden(l) == {h \in Home(l, "hidden") : Inside(h, l.workspace)}

\* Profile::bubblewrap, in its order; of a private directory nothing is the
\* machine's. Equal mounts of a kind are independent of each other, so each stage
\* is a set.
Stage(roots, access) == [roots |-> roots, access |-> access]
PrivateHome(l) == IF l.home = <<>> THEN {} ELSE {l.home}
Mounts(l) ==
  << Stage(System, "read"),
     Stage({<<"tmp">>, <<"run">>}, "none"),
     Stage(ShownResolv(l), "read"),
     Stage(PrivateHome(l), "none"),
     Stage(Home(l, "readable"), "read"),
     Stage(Home(l, "writable") \cup l.extra \cup l.git, "write"),
     Stage(ShownExe(l), "read"),
     Stage(ShownCommand(l), "read"),
     Stage({l.workspace}, "write"),
     Stage(Rehidden(l), "none") >>

\* What nothing covers is not there; the last mount over a path decides.
Covering(l, p) == {i \in DOMAIN Mounts(l) : \E r \in Mounts(l)[i].roots : Inside(p, r)}
BubblewrapAccess(l, p) ==
  LET c == Covering(l, p)
  IN  IF c = {} THEN "none" ELSE Mounts(l)[CHOOSE i \in c : \A k \in c : k <= i].access

Credential(l, p) == \E h \in Home(l, "hidden") : Inside(p, h)

\* Profile::firejail and seatbelt_profile: all is readable, what is listed and
\* the temporary directories are writable, credentials are denied after that.
RuleAccess(l, p) ==
  IF Credential(l, p) THEN "none"
  ELSE IF \E w \in Writable(l) \cup {<<"tmp">>} : Inside(p, w) THEN "write"
  ELSE "read"

\* Profile::ai_jail: what is mapped (or is the directory it starts in); what it
\* hides of a directory around its own hidden ones is its own affair.
MappedFor(l, p, roots) ==
  \E r \in roots : Inside(p, r) /\ \A h \in Home(l, "hidden") : Inside(p, h) => Inside(r, h)
AiJailAccess(l, p) ==
  IF MappedFor(l, p, {l.workspace} \cup l.git \cup l.extra) THEN "write"
  ELSE IF MappedFor(l, p, l.command) THEN "read"
  ELSE "own"

AccessUnder(r, l, p) ==
  IF r = "bubblewrap" THEN BubblewrapAccess(l, p)
  ELSE IF r = "ai-jail" THEN AiJailAccess(l, p)
  ELSE RuleAccess(l, p)

-----------------------------------------------------------------------------
Nowhere == [p \in Probe |-> "none"]

ConfineInit == layout \in Layout /\ runtime = "none" /\ grants = Nowhere

\* launch_prefix.
LaunchPrefix ==
  /\ runtime = "none"
  /\ runtime' \in Runtime
  /\ grants' = [p \in Probe |-> AccessUnder(runtime', layout, p)]
  /\ UNCHANGED layout

ConfineNext == LaunchPrefix

ConfineSpec == ConfineInit /\ [][ConfineNext]_confineVars

ConfineTypeOK ==
  layout \in Layout /\ runtime \in Runtime \cup {"none"} /\ grants \in [Probe -> Access]

-----------------------------------------------------------------------------
\* The operator listed or the agent's command names a path that p lies in, or the
\* workspace itself lies among the credentials.
Given(l, p) ==
  \/ \E r \in l.git \cup l.extra \cup l.command : Inside(p, r)
  \/ Inside(p, l.workspace) /\ Credential(l, l.workspace)

\* What agents see of the places that are private to them.
Shown(l) ==
  Writable(l) \cup Home(l, "readable") \cup l.command \cup ShownExe(l) \cup ShownResolv(l)

\* The table of confine.rs, wherever home, the workspace, a worktree's repository,
\* the configured paths and those the command names lie with respect to each other:
\* credentials are absent except where one of those paths was given that holds
\* them, and under rules even then; the workspace is writable; nothing is writable
\* that the profile does not list.  Under bubblewrap nothing else is shown of home,
\* /tmp and /run, and what the command names stays readable unless it is hidden
\* again with the workspace or home lies in a directory of the system.
ProfileHolds ==
  runtime # "none" =>
    \A p \in Probe :
      /\ Credential(layout, p) /\ ~Given(layout, p) => grants[p] \in {"none", "own"}
      /\ Credential(layout, p) /\ runtime \in ByRules => grants[p] = "none"
      /\ Inside(p, layout.workspace) /\ ~Credential(layout, p) => grants[p] = "write"
      /\ grants[p] = "write" =>
           \E w \in Writable(layout) : Inside(p, w) \/ (runtime \in ByRules /\ Inside(p, <<"tmp">>))
      /\ runtime = "bubblewrap" =>
           /\ grants[p] # "none" /\ (\E r \in PrivateHome(layout) \cup {<<"tmp">>, <<"run">>} :
                                       Inside(p, r)) =>
                \E r \in Shown(layout) : Inside(p, r)
           /\ (\E c \in layout.command : Inside(p, c)) /\ grants[p] = "none" =>
                Credential(layout, p) \/ \E s \in System : Inside(layout.home, s)
=============================================================================
