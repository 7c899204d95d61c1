----------------------------- MODULE Projection -----------------------------
(* The projection of the peer's registry into one client's configuration     *)
(* file, beside the entries of the user.  A reconcile pass reads the mirror  *)
(* of the registry, the file and the stored fingerprints, decides for each   *)
(* name, replaces the file and then commits the fingerprints.  The file and  *)
(* the database change in two steps, the file can be edited by its user, and *)
(* several commands can run at once: nothing locks the file.                 *)
EXTENDS Naturals

CONSTANTS Servers,      \* registered ids, which are also entry names
          Passes,       \* processes that reconcile (watch, or by hand)
          Operator,     \* the process that enrolls and unenrolls
          Changes, Edits, Crashes, Commands,    \* bounds
          Habits        \* "races" (edits during a pass), "overlaps" (commands
                        \* at once), "odd" (a transport without a route),
                        \* "keeps" (unenroll --keep-entries)

Procs == Passes \cup {Operator}
Forms == {"stdio", "http"}      \* what the bridge writes, by transport
Owned == Forms \cup {"edited"}  \* what it recognizes as written by it
Users == {"edited", "foreign"}  \* what a user made or changed

VARIABLES registry, mirror,     \* the peer's registry, and its last copy
          env, envId,           \* the environment's row
          stored,               \* the fingerprints of what was applied
          file,                 \* the client's configuration
          pc, snap,             \* each command, and what it has read
          changes, edits, crashes, commands
vars == <<registry, mirror, env, envId, stored, file, pc, snap, changes, edits, crashes, commands>>
environment == <<env, envId>>
bounds == <<changes, edits, crashes, commands>>

Absent == [s \in Servers |-> "none"]
Blank == [id |-> 0, facts |-> Absent, current |-> Absent, rows |-> Absent, previous |-> Absent]

Init ==
  /\ registry = Absent /\ mirror = Absent
  /\ env = "on" /\ envId = 1
  /\ stored = Absent
  /\ file \in [Servers -> {"none", "foreign"}]
  /\ pc = [p \in Procs |-> "idle"] /\ snap = [p \in Procs |-> Blank]
  /\ changes = 0 /\ edits = 0 /\ crashes = 0 /\ commands = 0

Goto(p, where) == pc' = [pc EXCEPT ![p] = where]
End(p) == Goto(p, "idle") /\ snap' = [snap EXCEPT ![p] = Blank]
MayStart(p) == pc[p] = "idle" /\ ("overlaps" \notin Habits => \A q \in Procs : pc[q] = "idle")

(* ---------------------------------------------------- the others, at work *)

Register(s, form) ==
  /\ changes < Changes /\ changes' = changes + 1
  /\ form # registry[s] /\ (form = "odd" => "odd" \in Habits)
  /\ registry' = [registry EXCEPT ![s] = form]
  /\ UNCHANGED <<mirror, environment, stored, file, pc, snap, edits, crashes, commands>>

(* The user removes or changes an entry, or puts it back as it was.          *)
Edit(s, entry) ==
  /\ edits < Edits /\ edits' = edits + 1
  /\ "races" \notin Habits => \A p \in Procs : pc[p] = "idle"
  /\ entry \in {"none"} \cup Users \cup ({stored[s]} \cap Forms) /\ entry # file[s]
  /\ file' = [file EXCEPT ![s] = entry]
  /\ UNCHANGED <<registry, mirror, environment, stored, pc, snap, changes, crashes, commands>>

(* ------------------------------------------------- what a pass decides on - *)

Wanted(k, s) == k.facts[s] # "none"
Live(k, s) == IF k.current[s] \in Owned THEN k.current[s] ELSE "none"

Adds(k) == {s \in Servers : Wanted(k, s) /\ k.current[s] = "none"}

(* Faulty: an entry is updated whoever changed it last.                      *)
UpdatesAny(k) == {s \in Servers :
  Wanted(k, s) /\ Live(k, s) # "none" /\ k.rows[s] # "none" /\ Live(k, s) # k.facts[s]}

(* Only what was written here, and is as it was written.                     *)
Updates(k) == {s \in Servers :
  Wanted(k, s) /\ Live(k, s) # "none" /\ Live(k, s) = k.rows[s] /\ Live(k, s) # k.facts[s]}

(* Unchanged, or adopted when there is no row and it is what would be        *)
(* written.                                                                  *)
Keeps(k) == {s \in Servers :
  Wanted(k, s) /\ Live(k, s) = k.facts[s] /\ k.rows[s] \in {"none", k.facts[s]}}

Obsolete(k) == {s \in Servers :
  ~Wanted(k, s) /\ Live(k, s) # "none" /\ Live(k, s) = k.rows[s]}

Configured(k) == Adds(k) \cup Updates(k) \cup Keeps(k)

(* The document is rendered from a second read: removals compare again, what *)
(* is to be written is written.                                              *)
Removed(k) == {s \in Obsolete(k) : k.previous[s] = k.current[s]}
Drifted(k) == {s \in Obsolete(k) : k.previous[s] \notin {"none", k.current[s]}}
Rendered(k) ==
  [s \in Servers |-> IF s \in Adds(k) \cup Updates(k) THEN k.facts[s]
                     ELSE IF s \in Removed(k) THEN "none" ELSE k.previous[s]]

(* ------------------------------------------------------- a reconcile pass - *)

Sync(p) ==
  /\ MayStart(p)
  /\ mirror' = registry
  /\ Goto(p, "rows")
  /\ UNCHANGED <<registry, environment, stored, file, snap, bounds>>

ReadRows(p) ==
  /\ pc[p] = "rows"
  /\ IF env = "on"
       THEN Goto(p, "file") /\ snap' = [snap EXCEPT ![p].facts = mirror, ![p].id = envId]
       ELSE End(p)
  /\ UNCHANGED <<registry, mirror, environment, stored, file, bounds>>

(* A target without a route fails the environment before anything is read.   *)
ReadFile(p) ==
  /\ pc[p] = "file"
  /\ IF p # Operator /\ \E s \in Servers : snap[p].facts[s] = "odd"
       THEN End(p)
       ELSE Goto(p, "stored") /\ snap' = [snap EXCEPT ![p].current = file]
  /\ UNCHANGED <<registry, mirror, environment, stored, file, bounds>>

(* unenroll refuses when an entry is not as it was written.                  *)
ReadStored(p) ==
  /\ pc[p] = "stored"
  /\ LET k == [snap[p] EXCEPT !.rows = stored] IN
     IF p = Operator /\ \E s \in Servers : Live(k, s) # "none" /\ s \notin Obsolete(k)
       THEN End(p)
       ELSE /\ snap' = [snap EXCEPT ![p] = k]
            /\ Goto(p, IF Adds(k) \cup Updates(k) \cup Obsolete(k) = {} THEN "commits" ELSE "applies")
  /\ UNCHANGED <<registry, mirror, environment, stored, file, bounds>>

ReadPrevious(p) ==
  /\ pc[p] = "applies" /\ Goto(p, "replaces")
  /\ snap' = [snap EXCEPT ![p].previous = file]
  /\ UNCHANGED <<registry, mirror, environment, stored, file, bounds>>

Replace(p) ==
  /\ pc[p] = "replaces" /\ Goto(p, "commits")
  /\ file' = Rendered(snap[p])
  /\ UNCHANGED <<registry, mirror, environment, stored, snap, bounds>>

(* One transaction; the rows of an environment that is gone are refused.     *)
Commit(p) ==
  /\ p \in Passes /\ pc[p] = "commits" /\ End(p)
  /\ LET k == snap[p] IN
     stored' = IF env = "gone" \/ envId # k.id THEN stored ELSE
       [s \in Servers |-> CASE s \in Configured(k) -> k.facts[s]
                            [] Wanted(k, s) /\ s \notin Configured(k) /\ stored[s] = "none" -> "blank"
                            [] s \in Removed(k) -> "none"
                            [] OTHER -> stored[s]]
  /\ UNCHANGED <<registry, mirror, environment, file, bounds>>

(* The command is killed, or its transaction is refused: what it has read    *)
(* and not committed is lost, the file is as it left it.                     *)
Crash(p) ==
  /\ crashes < Crashes /\ crashes' = crashes + 1
  /\ pc[p] # "idle" /\ End(p)
  /\ UNCHANGED <<registry, mirror, environment, stored, file, changes, edits, commands>>

(* ---------------------------------------------------------- the Operator -- *)

Command == commands < Commands /\ commands' = commands + 1

(* unenroll --keep-entries                                                   *)
Stop ==
  /\ "keeps" \in Habits /\ MayStart(Operator) /\ env = "on" /\ Command
  /\ env' = "stopped"
  /\ UNCHANGED <<registry, mirror, envId, stored, file, pc, snap, changes, edits, crashes>>

(* unenroll --remove-entries reads as a pass does that wants nothing.        *)
Unenroll ==
  /\ MayStart(Operator) /\ env # "gone" /\ Command
  /\ snap' = [snap EXCEPT ![Operator].id = envId]
  /\ Goto(Operator, "file")
  /\ UNCHANGED <<registry, mirror, environment, stored, file, changes, edits, crashes>>

Unenrolled ==
  /\ pc[Operator] = "commits" /\ End(Operator)
  /\ IF Drifted(snap[Operator]) = {}
       THEN env' = "gone" /\ stored' = Absent
       ELSE env' = "stopped" /\ UNCHANGED stored
  /\ UNCHANGED <<registry, mirror, envId, file, bounds>>

Enroll ==
  /\ MayStart(Operator) /\ env # "on" /\ Command
  /\ env' = "on" /\ envId' = envId + 1 /\ stored' = Absent
  /\ UNCHANGED <<registry, mirror, file, pc, snap, changes, edits, crashes>>

Step(p) == (p \in Passes /\ Sync(p)) \/ ReadRows(p) \/ ReadFile(p) \/ ReadStored(p) \/ ReadPrevious(p) \/ Replace(p)
           \/ Commit(p)
Next ==
  \/ \E s \in Servers :
       \/ \E form \in Forms \cup {"none", "odd"} : Register(s, form)
       \/ \E entry \in {"none"} \cup Forms \cup Users : Edit(s, entry)
  \/ \E p \in Passes : Sync(p) \/ ReadRows(p) \/ Commit(p)
  \/ \E p \in Procs : ReadFile(p) \/ ReadStored(p) \/ ReadPrevious(p) \/ Replace(p) \/ Crash(p)
  \/ Stop \/ Unenroll \/ Unenrolled \/ Enroll

Spec == Init /\ [][Next]_vars
(* `--watch-seconds`: the passes go on; a command that was begun ends.       *)
Fairness == (\A p \in Passes : WF_vars(Step(p))) /\ WF_vars(Step(Operator) \/ Unenrolled)
FairSpec == Spec /\ Fairness

TypeOK ==
  /\ registry \in [Servers -> Forms \cup {"none", "odd"}]
  /\ mirror \in [Servers -> Forms \cup {"none", "odd"}]
  /\ env \in {"on", "stopped", "gone"} /\ envId \in 1 .. Commands + 1
  /\ stored \in [Servers -> Forms \cup {"none", "blank"}]
  /\ file \in [Servers -> {"none"} \cup Forms \cup Users]
  /\ pc \in [Procs -> {"idle", "rows", "file", "stored", "applies", "replaces", "commits"}]
  /\ changes \in 0 .. Changes /\ edits \in 0 .. Edits /\ crashes \in 0 .. Crashes /\ commands \in 0 .. Commands
  /\ env = "gone" => stored = Absent

(* No command of the bridge changes an entry that the user made or changed.  *)
KeepsTheUsersOwn ==
  [][edits' = edits => \A s \in Servers : file[s] \in Users => file'[s] = file[s]]_vars

(* After `unenroll --remove-entries` the file holds nothing the bridge wrote. *)
RemovedIsClean ==
  env = "gone" /\ (\A p \in Procs : pc[p] = "idle") => \A s \in Servers : file[s] \notin Forms

(* Once the registry and the file are left alone, the watch brings the file  *)
(* to what the registry says, but for what the user holds.                   *)
Converged == \A s \in Servers : file[s] = registry[s] \/ file[s] \in Users
Converges == <>[](env = "on" /\ (\A s \in Servers : registry[s] # "odd") => Converged)
=============================================================================
