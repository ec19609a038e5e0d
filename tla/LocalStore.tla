------------------------------ MODULE LocalStore ------------------------------
(***************************************************************************)
(* The object store on a local disk (internal/storage/local.go), call by   *)
(* call.  Create makes the directories on the way to an object and syncs   *)
(* the parents of those it found missing; Commit syncs the temporary file, *)
(* renames it and syncs the directory it is in.  The flusher and the       *)
(* compactor write at the same time, each an object of its own.            *)
(*                                                                         *)
(* A name is a path: the sequence of its segments.  A directory's entry,   *)
(* like an object's, is in its parent, and is on disk once the parent has  *)
(* been synced.  Temporary files are not in the model.                     *)
(***************************************************************************)
EXTENDS Integers, Sequences, Maps

CONSTANTS
  Segment,    \* the segments names are made of
  Object,     \* the names of objects that may be written
  Writer,     \* who writes them
  MaxFaults,  \* bound: operating system calls that fail
  MaxStops    \* bound: times the process or the machine stops

ASSUME LocalAssumption ==
  /\ Object \subseteq Seq(Segment) \ {<<>>}
  /\ MaxFaults \in Nat /\ MaxStops \in Nat

VARIABLES
  dirs,       \* directory -> [named, settled]: whether its entry is on disk,
              \* and whether the Create that made it got past mkdirAll
  files,      \* object -> [synced, named]: whether its bytes are on disk,
              \* and whether its entry is
  writer,     \* what each writer is doing
  committed,  \* objects whose Commit returned without an error
  broken,     \* objects like that which a power loss took
  faults, stops

vars == <<dirs, files, writer, committed, broken, faults, stops>>

Root == <<>>

Parent(path) == SubSeq(path, 1, Len(path) - 1)

\* The directories a path goes through, below the root.
Above(path) == {SubSeq(path, 1, k) : k \in 1 .. Len(path) - 1}

Dir == UNION {Above(o) : o \in Object}

\* object is the one being written, at the directory mkdirAll looks at,
\* missing the ones it did not find, deepest first, and made those of them it
\* made itself; synced says whether the temporary file has been.
WriterState ==
  [step : {"idle", "stat", "mkdir", "settle", "write", "rename", "publish"},
   object : Object \cup {Root}, at : Dir \cup {Root}, missing : Seq(Dir),
   made : SUBSET Dir, synced : BOOLEAN]

Idle == [step |-> "idle", object |-> Root, at |-> Root, missing |-> <<>>,
         made |-> {}, synced |-> FALSE]

Init ==
  /\ dirs = <<>> /\ files = <<>>
  /\ writer = [w \in Writer |-> Idle]
  /\ committed = {} /\ broken = {}
  /\ faults = 0 /\ stops = 0

\* A step that fails uses up one fault.
Spend(ok) ==
  IF ok THEN UNCHANGED faults ELSE faults < MaxFaults /\ faults' = faults + 1

\* The writer's next state, and giving up.
Goes(w, next) == writer' = [writer EXCEPT ![w] = next]

GivesUp(w) == Goes(w, Idle)

\* syncDir: the entries of one directory are on disk.
SyncDir(path) ==
  /\ dirs' = [d \in DOMAIN dirs |->
                [dirs[d] EXCEPT !.named = @ \/ Parent(d) = path]]
  /\ files' = [o \in DOMAIN files |->
                 [files[o] EXCEPT !.named = @ \/ Parent(o) = path]]

------------------------------------------------------------------------------
(* Create. *)

Create(w, o) ==
  /\ writer[w].step = "idle"
  /\ \A v \in Writer : writer[v].object # o
  /\ Goes(w, [Idle EXCEPT !.step = "stat", !.object = o, !.at = Parent(o)])
  /\ UNCHANGED <<dirs, files, committed, broken, faults, stops>>

\* mkdirAll looks for the deepest directory there is.
Stat(w, ok) ==
  /\ writer[w].step = "stat"
  /\ Spend(ok)
  /\ LET at == writer[w].at
     IN  IF ~ok THEN GivesUp(w)
         ELSE IF at = Root \/ at \in DOMAIN dirs
         THEN Goes(w, [writer[w] EXCEPT !.step = "mkdir"])
         ELSE Goes(w, [writer[w] EXCEPT !.missing = Append(@, at),
                                        !.at = Parent(at)])
  /\ UNCHANGED <<dirs, files, committed, broken, stops>>

\* Mutant of Mkdir: os.Mkdir, on a system that lets it.
MkdirLeaf(w, ok) ==
  /\ writer[w].step = "mkdir"
  /\ Spend(ok)
  /\ IF ok THEN /\ dirs' = With(dirs, Parent(writer[w].object),
                                 [named |-> FALSE, settled |-> FALSE])
                /\ Goes(w, [writer[w] EXCEPT !.step = "settle"])
     ELSE GivesUp(w) /\ UNCHANGED dirs
  /\ UNCHANGED <<files, committed, broken, stops>>

\* os.MkdirAll makes what is still missing, the top one first; one that has
\* been made by somebody else in the meantime is as good.
Mkdir(w, ok) ==
  /\ writer[w].step = "mkdir"
  /\ Spend(ok)
  /\ IF ~ok THEN GivesUp(w) /\ UNCHANGED dirs
     ELSE IF Above(writer[w].object) \subseteq DOMAIN dirs
     THEN Goes(w, [writer[w] EXCEPT !.step = "settle"]) /\ UNCHANGED dirs
     ELSE \E d \in Above(writer[w].object) \ DOMAIN dirs :
            /\ Above(d) \subseteq DOMAIN dirs
            /\ dirs' = With(dirs, d, [named |-> FALSE, settled |-> FALSE])
            /\ Goes(w, [writer[w] EXCEPT !.made = @ \cup {d}])
  /\ UNCHANGED <<files, committed, broken, stops>>

\* Mutant of EntryIn: the directory itself is synced, not the one it is in.
EntryInItself(path) == path

\* Where the entry of a new directory is.
EntryIn(path) == Parent(path)

\* mkdirAll syncs the parent of each directory it found missing.
SettleDir(w, ok) ==
  /\ writer[w].step = "settle" /\ writer[w].missing # <<>>
  /\ Spend(ok)
  /\ IF ok THEN /\ SyncDir(EntryIn(Head(writer[w].missing)))
                /\ Goes(w, [writer[w] EXCEPT !.missing = Tail(@)])
     ELSE GivesUp(w) /\ UNCHANGED <<dirs, files>>
  /\ UNCHANGED <<committed, broken, stops>>

\* The end of mkdirAll, and the temporary file.
CreateTemp(w, ok) ==
  /\ writer[w].step = "settle" /\ writer[w].missing = <<>>
  /\ Spend(ok)
  /\ dirs' = [d \in DOMAIN dirs |->
                [dirs[d] EXCEPT !.settled = @ \/ d \in writer[w].made]]
  /\ IF ok THEN Goes(w, [writer[w] EXCEPT !.step = "write"]) ELSE GivesUp(w)
  /\ UNCHANGED <<files, committed, broken, stops>>

------------------------------------------------------------------------------
(* Commit. *)

\* Mutant of FileStep: the file is renamed as it is.
FileStepNone(rec) == [rec EXCEPT !.step = "rename"]

FileStep(rec) == [rec EXCEPT !.step = "rename", !.synced = TRUE]

\* The bytes are written, and file.Sync and file.Close return.
SyncFile(w, ok) ==
  /\ writer[w].step = "write"
  /\ Spend(ok)
  /\ IF ok THEN Goes(w, FileStep(writer[w])) ELSE GivesUp(w)
  /\ UNCHANGED <<dirs, files, committed, broken, stops>>

\* An object that is there already is replaced, and its entry with it.
Rename(w, ok) ==
  /\ writer[w].step = "rename"
  /\ Spend(ok)
  /\ LET o == writer[w].object
         was == o \in DOMAIN files /\ files[o].named
     IN  IF ok THEN /\ files' = With(files, o, [synced |-> writer[w].synced,
                                                named |-> was])
                    /\ Goes(w, [writer[w] EXCEPT !.step = "publish"])
         ELSE GivesUp(w) /\ UNCHANGED files
  /\ UNCHANGED <<dirs, committed, broken, stops>>

\* An error here is one of an object that is there all the same.
Publish(w, ok) ==
  /\ writer[w].step = "publish"
  /\ Spend(ok)
  /\ GivesUp(w)
  /\ IF ok THEN /\ SyncDir(Parent(writer[w].object))
                /\ committed' = committed \cup {writer[w].object}
     ELSE UNCHANGED <<dirs, files, committed>>
  /\ UNCHANGED <<broken, stops>>

------------------------------------------------------------------------------

\* Remove, of an object nobody is writing.
Remove(o) ==
  /\ o \in DOMAIN files
  /\ \A w \in Writer : writer[w].object # o
  /\ files' = Without(files, o)
  /\ committed' = committed \ {o}
  /\ UNCHANGED <<dirs, writer, broken, faults, stops>>

Stopped ==
  /\ stops < MaxStops
  /\ stops' = stops + 1
  /\ writer' = [w \in Writer |-> Idle]
  /\ UNCHANGED faults

\* The process is killed: the directories and files stay as they are.
Kill == Stopped /\ UNCHANGED <<dirs, files, committed, broken>>

\* Any entry that was not synced may be gone, with everything below it.
PowerLoss ==
  /\ Stopped
  /\ \E gone \in SUBSET {d \in DOMAIN dirs : ~dirs[d].named},
        lost \in SUBSET {o \in DOMAIN files : ~files[o].named} :
       LET left == {d \in DOMAIN dirs : (Above(d) \cup {d}) \cap gone = {}}
           kept == {o \in DOMAIN files \ lost : Above(o) \subseteq left}
       IN  /\ dirs' = [d \in left |-> [named |-> TRUE, settled |-> TRUE]]
           /\ files' = [o \in kept |-> [files[o] EXCEPT !.named = TRUE]]
           /\ committed' = committed \cap kept
           /\ broken' = broken \cup (committed \ kept)

Next ==
  \/ \E w \in Writer : \E o \in Object : Create(w, o)
  \/ \E w \in Writer, ok \in BOOLEAN :
       \/ Stat(w, ok) \/ Mkdir(w, ok) \/ SettleDir(w, ok) \/ CreateTemp(w, ok)
       \/ SyncFile(w, ok) \/ Rename(w, ok) \/ Publish(w, ok)
  \/ \E o \in Object : Remove(o)
  \/ Kill \/ PowerLoss

Spec == Init /\ [][Next]_vars

------------------------------------------------------------------------------
(* What the object store guarantees. *)

TypeOK ==
  /\ DOMAIN dirs \subseteq Dir
  /\ dirs \in [DOMAIN dirs -> [named : BOOLEAN, settled : BOOLEAN]]
  /\ DOMAIN files \subseteq Object
  /\ files \in [DOMAIN files -> [synced : BOOLEAN, named : BOOLEAN]]
  /\ writer \in [Writer -> WriterState]
  /\ \A p \in DOMAIN dirs \cup DOMAIN files : Above(p) \subseteq DOMAIN dirs
  /\ committed \subseteq Object /\ broken \subseteq Object
  /\ faults \in Nat /\ stops \in Nat

\* An object that can be opened under its name has its bytes on disk: it is
\* whole, also after a power loss (Commit).
ObjectsAreWhole == \A o \in DOMAIN files : files[o].synced

\* A power loss takes a committed object only with a directory whose maker did
\* not get past mkdirAll - it failed, was killed, or is still at it: whoever
\* found that directory in place did not sync it (mkdirAll, Commit).
OnlyHasteLoses ==
  [][\A o \in broken' \ broken :
       \E d \in Above(o) : d \in DOMAIN dirs /\ ~dirs[d].settled]_vars

\* A committed object survives (Commit).
CommitIsDurable == broken = {}
=============================================================================
