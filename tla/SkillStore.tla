----------------------------- MODULE SkillStore -----------------------------
(***************************************************************************)
(* Skills: what a fetched package is worth (validation.rs, integrity.rs)   *)
(* and how the manager installs, enables, updates and removes one          *)
(* (manager.rs).  Each CUMA process keeps its own copy of the record that  *)
(* installed.json held when it started, and serves SKILL.md of the enabled *)
(* skills to agents; the files and installed.json are shared.              *)
(*                                                                         *)
(* One skill, installed into a directory.  A package stands for its files  *)
(* and for what its registry published of them; the digest is that of the  *)
(* files without skill.sig, so it does not tell signatures apart.          *)
(***************************************************************************)
EXTENDS Naturals

CONSTANTS Process,
          Offers,        \* the packages registries come to publish
          AutoInstall,   \* skills.auto_install: "Never", "TrustedOnly" or "Verified"
          MaxPublished   \* times the registry changes what it offers

\* TrustLevel, the most trusted first.
Trusted   == 1
Verified  == 2
Community == 3
Untrusted == 4

\* What a registry delivers and what CUMA finds out about it.
Package == [origin : {"builtin", "generated", "file", "https", "http"},
            sound : BOOLEAN,                                       \* manifest and permissions
            signature : {"Absent", "Valid", "UnknownKey", "Invalid"},
            published : {"none", "matches", "differs"},             \* digest_matches
            content : {"none", "one", "two"}]                       \* has_files, what is digested

HasFiles(pkg) == pkg.content # "none"
SameDigest(pkg, other) == HasFiles(pkg) /\ pkg.content = other.content

\* One process uses the install directory; registries publish packages, and only
\* a directory of the operator offers a manifest alone.
SkillAssumption ==
  /\ Process # {} /\ \A p, q \in Process : p = q
  /\ Offers \subseteq Package /\ MaxPublished \in Nat
  /\ \A pkg \in Offers : ~HasFiles(pkg) =>
       pkg.origin = "file" /\ pkg.signature = "Absent" /\ pkg.published = "none"

VARIABLES offered,     \* the package the registry offers
          published,   \* how often that changed
          files,       \* the package in the install directory, or NoPackage
          lockfile,    \* installed.json: the skill's record, or NoRecord
          memory,      \* each process's record
          guide,       \* the package each process serves to agents, or NoPackage
          task,        \* what each process is doing
          approved,    \* history: the least trust the operator or policy let guide agents
          torn         \* history: a change never reached installed.json, and the skill
                       \* was not installed anew since

skillVars == <<offered, published, files, lockfile, memory, guide, task, approved, torn>>

NoPackage == [origin |-> "none", sound |-> FALSE, signature |-> "Absent", published |-> "none",
              content |-> "none"]
NoRecord  == [package |-> NoPackage, trust |-> Untrusted, enabled |-> FALSE]
NoJob     == [pc |-> "idle", package |-> NoPackage, enabled |-> FALSE, asked |-> FALSE]

-----------------------------------------------------------------------------
\* validate_with: what keeps a package out altogether.
IsLocal(pkg)  == pkg.origin \in {"builtin", "file", "generated"}
IsSecure(pkg) == IsLocal(pkg) \/ pkg.origin = "https"
Installable(pkg) ==
  pkg.sound /\ pkg.published # "differs" /\ pkg.signature # "Invalid" /\ IsSecure(pkg)

\* Trust is earned by evidence, never by the manifest's own label.
TrustOf(pkg) ==
  IF pkg.origin = "generated" THEN Untrusted
  ELSE IF pkg.origin = "builtin" \/ pkg.signature = "Valid" THEN Trusted
  ELSE IF pkg.published = "matches" /\ ~IsLocal(pkg) THEN Verified
  ELSE IF IsSecure(pkg) THEN Community
  ELSE Untrusted

MayAutoInstall(trust) ==
  \/ AutoInstall = "TrustedOnly" /\ trust = Trusted
  \/ AutoInstall = "Verified" /\ trust <= Verified

\* SkillFactory: a manifest of CUMA's own making, without instructions.
Generated == [origin |-> "generated", sound |-> TRUE, signature |-> "Absent",
              published |-> "none", content |-> "generated"]
HasInstructions(pkg) == pkg # NoPackage /\ pkg.origin # "generated"

\* rebuild_guides: an enabled skill's instructions, read from its directory.
Guide(record, dir) == IF record.enabled /\ HasInstructions(dir) THEN dir ELSE NoPackage

Packages == Offers \cup {Generated, NoPackage}
Record == [package : Packages, trust : Trusted..Untrusted, enabled : BOOLEAN]

SkillTypeOK ==
  /\ offered \in Package /\ {offered, files} \subseteq Packages /\ published \in 0..MaxPublished
  /\ lockfile \in Record /\ torn \in BOOLEAN /\ approved \in 0..Untrusted
  /\ memory \in [Process -> Record] /\ guide \in [Process -> Packages]
  /\ \A p \in Process : /\ task[p].pc \in {"idle", "replace", "place", "record", "save"}
                        /\ task[p].package \in Packages
                        /\ {task[p].enabled, task[p].asked} \subseteq BOOLEAN

SkillInit ==
  /\ offered \in Offers /\ published = 0
  /\ files = NoPackage /\ lockfile = NoRecord
  /\ memory = [p \in Process |-> NoRecord] /\ guide = [p \in Process |-> NoPackage]
  /\ task = [p \in Process |-> NoJob]
  /\ approved = 0 /\ torn = FALSE

-----------------------------------------------------------------------------
RegistryPublishes ==
  /\ published < MaxPublished
  /\ \E pkg \in Offers \ {offered} : offered' = pkg
  /\ published' = published + 1
  /\ UNCHANGED <<files, lockfile, memory, guide, task, approved, torn>>

Begin(p, pkg, enabled, asked) ==
  task' = [task EXCEPT ![p] = [pc |-> "replace", package |-> pkg, enabled |-> enabled,
                             asked |-> asked]]

\* install: what a person asks for is enabled, the request being the approval.
Install(p) ==
  /\ task[p].pc = "idle" /\ Installable(offered)
  /\ Begin(p, offered, TrustOf(offered) # Untrusted, TRUE)
  /\ UNCHANGED <<offered, published, files, lockfile, memory, guide, approved, torn>>

\* satisfy: only what policy allows without asking.
Satisfy(p) ==
  /\ task[p].pc = "idle" /\ Installable(offered) /\ MayAutoInstall(TrustOf(offered))
  /\ Begin(p, offered, TRUE, TRUE)
  /\ UNCHANGED <<offered, published, files, lockfile, memory, guide, approved, torn>>

\* install_generated: disabled, and Untrusted.
InstallGenerated(p) ==
  /\ task[p].pc = "idle"
  /\ Begin(p, Generated, FALSE, FALSE)
  /\ UNCHANGED <<offered, published, files, lockfile, memory, guide, approved, torn>>

UpdateKeepsEnabled(record, pkg) == record.enabled /\ pkg \in Packages

\* An update whose trust fell is installed disabled.
UpdateEnabled(record, pkg) == record.enabled /\ TrustOf(pkg) <= record.trust

\* update: verified like a first install; nothing to do when the digest is the same.
Update(p) ==
  /\ task[p].pc = "idle" /\ Installable(offered)
  /\ memory[p].package \notin {NoPackage, Generated}
  /\ ~SameDigest(offered, memory[p].package)
  /\ Begin(p, offered, UpdateEnabled(memory[p], offered), FALSE)
  /\ UNCHANGED <<offered, published, files, lockfile, memory, guide, approved, torn>>

\* A directory that could not be removed is whole, or its SKILL.md is gone.
RemovalFails == files' \in {files, NoPackage}

\* commit: the old files go and the staged ones are moved in, unless the package
\* has none; then the record follows.  When the disk refuses, what was recorded
\* and is served stays, whatever became of the files.
Commit(p) ==
  /\ \/ /\ task[p].pc = "replace" /\ HasFiles(task[p].package)
        /\ \/ files' = NoPackage /\ task' = [task EXCEPT ![p].pc = "place"]
           \/ RemovalFails /\ task' = [task EXCEPT ![p] = NoJob]
        /\ UNCHANGED <<memory, approved>>
     \/ /\ task[p].pc = "replace" /\ ~HasFiles(task[p].package)
        /\ task' = [task EXCEPT ![p].pc = "record"]
        /\ UNCHANGED <<files, memory, approved>>
     \/ /\ task[p].pc = "place"
        /\ \/ files' = task[p].package /\ task' = [task EXCEPT ![p].pc = "record"]
           \/ files' = files /\ task' = [task EXCEPT ![p] = NoJob]
        /\ UNCHANGED <<memory, approved>>
     \/ /\ task[p].pc = "record"
        /\ memory' = [memory EXCEPT ![p] = [package |-> task[p].package,
                        trust |-> TrustOf(task[p].package), enabled |-> task[p].enabled]]
        /\ task' = [task EXCEPT ![p].pc = "save"]
        /\ approved' = IF task[p].asked THEN TrustOf(task[p].package) ELSE approved
        /\ UNCHANGED files
  /\ UNCHANGED <<offered, published, lockfile, guide, torn>>

\* save; the disk may refuse installed.json after the guides were rebuilt.
Save(p) ==
  /\ task[p].pc = "save"
  /\ guide' = [guide EXCEPT ![p] = Guide(memory[p], files)]
  /\ \/ lockfile' = memory[p] /\ torn' = (torn /\ ~task[p].asked)
     \/ torn' = TRUE /\ UNCHANGED lockfile
  /\ task' = [task EXCEPT ![p] = NoJob]
  /\ UNCHANGED <<offered, published, files, memory, approved>>

\* set_enabled: an Untrusted skill cannot be enabled.
SetEnabled(p, enabled) ==
  /\ task[p].pc = "idle" /\ memory[p] # NoRecord
  /\ enabled => memory[p].trust # Untrusted
  /\ memory' = [memory EXCEPT ![p].enabled = enabled]
  /\ approved' = IF enabled THEN memory[p].trust ELSE 0
  /\ task' = [task EXCEPT ![p].pc = "save"]
  /\ UNCHANGED <<offered, published, files, lockfile, guide, torn>>

\* remove: out of memory, off the disk, and saved; not saved when the files stay.
RemoveSkill(p) ==
  /\ task[p].pc = "idle" /\ memory[p] # NoRecord
  /\ memory' = [memory EXCEPT ![p] = NoRecord]
  /\ \/ files' = NoPackage /\ task' = [task EXCEPT ![p].pc = "save"]
     \/ RemovalFails /\ UNCHANGED task
  /\ UNCHANGED <<offered, published, lockfile, guide, approved, torn>>

\* Anything done to another skill saves the whole record this process has.
SaveForAnother(p) ==
  /\ task[p].pc = "idle"
  /\ task' = [task EXCEPT ![p].pc = "save"]
  /\ UNCHANGED <<offered, published, files, lockfile, memory, guide, approved, torn>>

\* The process ends, whatever it was doing, and starts again: with_install_dir.
Restart(p) ==
  /\ memory' = [memory EXCEPT ![p] = lockfile]
  /\ guide' = [guide EXCEPT ![p] = Guide(lockfile, files)]
  /\ torn' = (torn \/ task[p].pc \in {"record", "save"})
  /\ task' = [task EXCEPT ![p] = NoJob]
  /\ UNCHANGED <<offered, published, files, lockfile, approved>>

SkillNext ==
  \/ RegistryPublishes
  \/ \E p \in Process :
       \/ Install(p) \/ Satisfy(p) \/ InstallGenerated(p) \/ Update(p) \/ Commit(p) \/ Save(p)
       \/ \E enabled \in BOOLEAN : SetEnabled(p, enabled)
       \/ RemoveSkill(p) \/ SaveForAnother(p) \/ Restart(p)

SkillSpec == SkillInit /\ [][SkillNext]_skillVars

-----------------------------------------------------------------------------
\* "one whose trust fell is installed disabled" (manager.rs): between operations
\* of one process, an installed skill is enabled with instructions, and these reach
\* an agent, only if the files they are in have earned at least the trust that was
\* approved, however the registry changed what it offers, whichever files could not
\* be removed or moved, and although a package without files leaves the old ones.
\* Not promised from a change that installed.json was not told of until the skill
\* is installed anew.
GuidanceWithinApproval ==
  (~torn /\ \A p \in Process : task[p].pc = "idle") =>
    /\ lockfile.enabled /\ HasInstructions(files) => TrustOf(files) <= approved
    /\ \A p \in Process : guide[p] # NoPackage => TrustOf(guide[p]) <= approved

=============================================================================
