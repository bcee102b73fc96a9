----------------------------- MODULE Quarantine -----------------------------
(***************************************************************************)
(* Quarantine of files and their restore (internal/malware/quarantine.go,  *)
(* restore.go; the loop of cmd/infrafence-agent/main.go and                *)
(* restoreQuarantinedFiles of vpatch.go).                                  *)
(*                                                                         *)
(* A sync moves the files the dashboard names into the vault, one after    *)
(* the other, each under the second and its path with every "/" and        *)
(* control character made "_" (of a long one, the end), beside a           *)
(* description that names the path: two paths may meet under one name.  A  *)
(* goroutine of its own puts files back.  One action is one change of a    *)
(* file; the agent may be killed between any two.  A version of a file is  *)
(* <<path, number>>.                                                       *)
(*                                                                         *)
(* A file is regular and in a detected web root.  Owners create files      *)
(* where there is none and change none.  The dashboard has one request for *)
(* a path at a time, until its result arrives; results arrive.             *)
(*                                                                         *)
(* A definition whose name begins with Mut is the one after it with a      *)
(* mistake planted, to see a property fail.                                *)
(***************************************************************************)
EXTENDS Integers, FiniteSets

CONSTANTS
    Paths, SafeNames,
    SafeName,      \* path -> how it stands in the vault
    MaxSec,        \* bound: the clock
    MaxBirths,     \* bound: files created for each path
    MaxQCrashes, MaxQFaults

\* No path at all: a path begins with "/".
NoPath == "none"

ASSUME PathsAssumption == IsFiniteSet(Paths) /\ NoPath \notin Paths
ASSUME SafeNameAssumption == SafeName \in [Paths -> SafeNames]
ASSUME VaultBounds == {MaxSec, MaxBirths, MaxQCrashes, MaxQFaults} \subseteq Nat /\ MaxBirths > 0

VARIABLES
    site,     \* path -> the file there
    vault,    \* name -> the file there
    meta,     \* name -> the path its description gives
    born,     \* path -> versions created so far
    asked,    \* path -> what the dashboard has pending for it
    sec,
    queue,    \* the paths this sync still has to quarantine
    mover,    \* the sync's move in progress
    undone,   \* the restores not begun yet, of all goroutines
    begun,    \* restoresDone
    restorer, \* the restore in progress, under restoreMu
    unmarked, \* history: versions whose description could not be written
    clashed,  \* history: versions that met another path's under one name
    qCrashes, qFaults

fileVars == <<site, vault, meta>>
jobVars  == <<queue, mover, undone, begun, restorer>>
quarantineVars ==
    <<fileVars, born, asked, sec, jobVars, unmarked, clashed, qCrashes, qFaults>>

NoFile  == [ver |-> <<>>, whole |-> FALSE]
Names   == (0..MaxSec) \X SafeNames
Version == Paths \X (1..MaxBirths)
Files   == [ver : Version, whole : BOOLEAN] \cup {NoFile}
Whole(v) == [ver |-> v, whole |-> TRUE]
Part(f)  == [ver |-> f.ver, whole |-> FALSE]
Resting == [pc |-> "idle"]
VaultFault == qFaults < MaxQFaults /\ qFaults' = qFaults + 1
NoVaultFault == UNCHANGED qFaults

QuarantineInit ==
    /\ site = [p \in Paths |-> Whole(<<p, 1>>)] /\ born = [p \in Paths |-> 1]
    /\ vault = [n \in Names |-> NoFile] /\ meta = [n \in Names |-> NoPath]
    /\ asked = [p \in Paths |-> "none"] /\ sec = 0
    /\ queue = {} /\ mover = Resting
    /\ undone = {} /\ begun = {} /\ restorer = Resting
    /\ unmarked = {} /\ clashed = {} /\ qCrashes = 0 /\ qFaults = 0

\* The result of the request for p has arrived; a later request has another
\* number, so that the entry of this one can go.
Answered(p) == asked' = [asked EXCEPT ![p] = "none"] /\ begun' = begun \ {p}
Unanswered  == UNCHANGED <<asked, begun>>

----------------------------------------------------------------------------
(* The dashboard, the owners of the sites, the clock.                      *)

Ask(p) ==
    /\ asked[p] = "none"
    /\ \E what \in {"quarantine", "restore"} : asked' = [asked EXCEPT ![p] = what]
    /\ UNCHANGED <<fileVars, born, sec, jobVars, unmarked, clashed, qCrashes, qFaults>>

OwnerCreates(p) ==
    /\ site[p] = NoFile /\ born[p] < MaxBirths
    /\ born' = [born EXCEPT ![p] = @ + 1]
    /\ site' = [site EXCEPT ![p] = Whole(<<p, born[p] + 1>>)]
    /\ UNCHANGED <<vault, meta, asked, sec, jobVars, unmarked, clashed, qCrashes, qFaults>>

\* syncAndApply: syncs are three seconds apart at least.
VaultSync ==
    /\ mover.pc = "idle" /\ queue = {} /\ sec < MaxSec
    /\ {p \in Paths : asked[p] # "none"} # {}
    /\ sec' = sec + 1
    /\ queue' = {p \in Paths : asked[p] = "quarantine"}
    /\ undone' = undone \cup {p \in Paths : asked[p] = "restore" /\ p \notin begun}
    /\ UNCHANGED <<fileVars, born, asked, mover, begun, restorer, unmarked, clashed, qCrashes, qFaults>>

----------------------------------------------------------------------------
(* QuarantineFile, for each path the sync names.                           *)

\* ValidateQuarantinePath: a file that is there.
Movable(p) == site[p] # NoFile

\* Another path was quarantined under the name in the same second.
NameTaken(name) == vault[name] # NoFile \/ meta[name] # NoPath

\* The description is written first, over any that is there; a failure to
\* write it is only logged.
MoveBegin(p) ==
    LET name == <<sec, SafeName[p]>>
        there == IF vault[name] = NoFile THEN {} ELSE {vault[name].ver}
    IN
    /\ mover.pc = "idle" /\ p \in queue
    /\ queue' = queue \ {p}
    /\ IF ~Movable(p)
       THEN Answered(p) /\ NoVaultFault /\ UNCHANGED <<mover, meta, unmarked, clashed>>
       ELSE /\ mover' = [pc |-> "move", path |-> p, name |-> name]
            /\ Unanswered
            /\ \/ /\ NoVaultFault /\ meta' = [meta EXCEPT ![name] = p]
                  /\ clashed' = clashed \cup there /\ UNCHANGED unmarked
               \/ /\ VaultFault /\ unmarked' = unmarked \cup {site[p].ver}
                  /\ clashed' = clashed \cup there \cup (IF NameTaken(name) THEN {site[p].ver} ELSE {})
                  /\ UNCHANGED meta
    /\ UNCHANGED <<site, vault, born, sec, undone, restorer, qCrashes>>

\* The rename; or, to another file system, the copy: over what is there.
Move ==
    LET p == mover.path IN
    /\ mover.pc = "move"
    /\ vault' = [vault EXCEPT ![mover.name] = site[p]]
    /\ \/ /\ NoVaultFault
          /\ site' = [site EXCEPT ![p] = NoFile]
          /\ mover' = Resting /\ Answered(p)
       \/ /\ VaultFault
          /\ mover' = [mover EXCEPT !.pc = "remove"]
          /\ Unanswered /\ UNCHANGED site
    /\ UNCHANGED <<meta, born, sec, queue, undone, restorer, unmarked, clashed, qCrashes>>

\* The original goes, or else the copy and its description.
MutMoveRemove ==
    LET p == mover.path IN
    /\ mover.pc = "remove"
    /\ vault' = [vault EXCEPT ![mover.name] = NoFile]
    /\ meta' = [meta EXCEPT ![mover.name] = NoPath]
    /\ site' = [site EXCEPT ![p] = NoFile]
    /\ NoVaultFault
    /\ mover' = Resting /\ Answered(p)
    /\ UNCHANGED <<born, sec, queue, undone, restorer, unmarked, clashed, qCrashes>>

MoveRemove ==
    LET p == mover.path IN
    /\ mover.pc = "remove"
    /\ \/ /\ NoVaultFault
          /\ site' = [site EXCEPT ![p] = NoFile] /\ UNCHANGED <<vault, meta>>
       \/ /\ VaultFault
          /\ vault' = [vault EXCEPT ![mover.name] = NoFile]
          /\ meta' = [meta EXCEPT ![mover.name] = NoPath]
          /\ UNCHANGED site
    /\ mover' = Resting /\ Answered(p)
    /\ UNCHANGED <<born, sec, queue, undone, restorer, unmarked, clashed, qCrashes>>

----------------------------------------------------------------------------
(* RestoreQuarantined, for each request not begun before.                  *)

\* findQuarantined: the copies described as p's, the newest of them.
Copies(p) == {n \in Names : meta[n] = p /\ vault[n] # NoFile}
NewestCopy(p) == CHOOSE n \in Copies(p) : \A m \in Copies(p) : m[1] <= n[1]

RestoreBegin(p) ==
    /\ restorer.pc = "idle" /\ p \in undone
    /\ undone' = undone \ {p}
    /\ IF Copies(p) = {} \/ site[p] # NoFile
       THEN Answered(p) /\ UNCHANGED restorer
       ELSE /\ restorer' = [pc |-> "create", path |-> p, name |-> NewestCopy(p)]
            /\ begun' = begun \cup {p} /\ UNCHANGED asked
    /\ UNCHANGED <<fileVars, born, sec, queue, mover, unmarked, clashed, qCrashes, qFaults>>

\* The file is created only where there is still none.
RestoreCreate ==
    LET p == restorer.path IN
    /\ restorer.pc = "create"
    /\ IF site[p] # NoFile
       THEN restorer' = Resting /\ Answered(p) /\ UNCHANGED site
       ELSE /\ site' = [site EXCEPT ![p] = Part(vault[restorer.name])]
            /\ restorer' = [restorer EXCEPT !.pc = "copy"] /\ Unanswered
    /\ UNCHANGED <<vault, meta, born, sec, queue, mover, undone, unmarked, clashed, qCrashes, qFaults>>

\* The contents, the owner and the mode; a failure removes the file again.
RestoreCopy ==
    LET p == restorer.path IN
    /\ restorer.pc = "copy"
    /\ \/ /\ NoVaultFault
          /\ site' = [site EXCEPT ![p] = vault[restorer.name]]
          /\ restorer' = [restorer EXCEPT !.pc = "clean"] /\ Unanswered
       \/ /\ VaultFault
          /\ site' = [site EXCEPT ![p] = NoFile]
          /\ restorer' = Resting /\ Answered(p)
    /\ UNCHANGED <<vault, meta, born, sec, queue, mover, undone, unmarked, clashed, qCrashes>>

\* The copy is removed, then its description; a failure is only logged.
RestoreClean ==
    /\ restorer.pc = "clean"
    /\ \/ NoVaultFault /\ vault' = [vault EXCEPT ![restorer.name] = NoFile]
       \/ VaultFault /\ UNCHANGED vault
    /\ restorer' = [restorer EXCEPT !.pc = "unmark"]
    /\ UNCHANGED <<site, meta, born, asked, sec, queue, mover, undone, begun, unmarked, clashed, qCrashes>>

RestoreEnd ==
    /\ restorer.pc = "unmark"
    /\ meta' = [meta EXCEPT ![restorer.name] = NoPath]
    /\ restorer' = Resting /\ Answered(restorer.path)
    /\ UNCHANGED <<site, vault, born, sec, queue, mover, undone, unmarked, clashed, qCrashes, qFaults>>

\* The process ends and starts again: files stay, the rest is forgotten.
VaultCrash ==
    /\ qCrashes < MaxQCrashes /\ qCrashes' = qCrashes + 1
    /\ queue' = {} /\ mover' = Resting /\ undone' = {} /\ begun' = {} /\ restorer' = Resting
    /\ UNCHANGED <<fileVars, born, asked, sec, unmarked, clashed, qFaults>>

VaultStep == Move \/ MoveRemove \/ RestoreCreate \/ RestoreCopy \/ RestoreClean \/ RestoreEnd

QuarantineNext ==
    \/ \E p \in Paths : Ask(p) \/ OwnerCreates(p) \/ MoveBegin(p) \/ RestoreBegin(p)
    \/ VaultSync \/ VaultStep \/ VaultCrash

QuarantineSpec == QuarantineInit /\ [][QuarantineNext]_quarantineVars

----------------------------------------------------------------------------

Movers == {Resting} \cup [pc : {"move", "remove"}, path : Paths, name : Names]
Restorers ==
    {Resting} \cup [pc : {"create", "copy", "clean", "unmark"}, path : Paths, name : Names]

QuarantineTypeOK ==
    /\ site \in [Paths -> Files] /\ vault \in [Names -> Files]
    /\ meta \in [Names -> Paths \cup {NoPath}]
    /\ born \in [Paths -> 1..MaxBirths]
    /\ asked \in [Paths -> {"none", "quarantine", "restore"}] /\ sec \in 0..MaxSec
    /\ queue \subseteq Paths /\ undone \subseteq Paths /\ begun \subseteq Paths
    /\ mover \in Movers /\ restorer \in Restorers
    /\ unmarked \subseteq Version /\ clashed \subseteq Version
    /\ qCrashes \in 0..MaxQCrashes /\ qFaults \in 0..MaxQFaults

\* Whole on the site, or whole in the vault under a description that names its
\* path (which only a failed write of the description prevents).
Kept(p, k) ==
    \/ site[p] = Whole(<<p, k>>)
    \/ \E n \in Names : vault[n] = Whole(<<p, k>>) /\ (meta[n] = p \/ <<p, k>> \in unmarked)

\* Every version of a file that ever was is kept, unless another path's file
\* was quarantined under its name in the same second: through moves, copies,
\* restores that fail, owners who create the file anew and crashes at any
\* point.
KeptRestorable ==
    \A p \in Paths : \A k \in 1..born[p] : Kept(p, k) \/ <<p, k>> \in clashed

\* What the comments on QuarantineFile say (quarantine.go:17, "renamed with
\* metadata to allow restoration"; 29, "timestamp_originalpath_hash"): without
\* that exception.  The name has no hash, and two paths that differ in a "/"
\* and a "_", quarantined in one second, have one name: the second file is
\* renamed over the first.
EveryVersionKept == \A p \in Paths : \A k \in 1..born[p] : Kept(p, k)

=============================================================================
