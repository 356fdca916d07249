--------------------------- MODULE RegistryStore ---------------------------
(***************************************************************************)
(* RegistryStore (src/zen/registry/store.py): calls of several processes   *)
(* on one registry file.  A mutation holds a flock on the sidecar lock     *)
(* file over its whole load-modify-save cycle and puts the new document in *)
(* place by writing a temporary file and renaming it; a read takes no      *)
(* lock.  A process may die between any two steps: the kernel drops its    *)
(* flock, its temporary file stays.                                        *)
(*                                                                         *)
(* The document is the set of its entries; the order of the list is left   *)
(* out.                                                                    *)
(***************************************************************************)
CONSTANTS
    Caller, Name, Path, BadPath, Malformed, None,
    Calls       \* the calls the processes may make

Entry == [name : Name, path : Path \ {BadPath}]

Call == [kind : {"register", "update", "delete", "get"},
         name : Name, to : Name \cup {None}, path : Path \cup {None}]

NoCall == [kind |-> "none"]

ASSUME CallsAssumption ==
    /\ Calls \subseteq Call
    /\ \A o \in Calls : o.kind = "register" => o.path \in Path \ {BadPath}
ASSUME MalformedAssumption == \A D \in SUBSET Entry : D # Malformed
ASSUME NoneAssumption == None \notin Caller \cup Name \cup Path
ASSUME BadPathAssumption == BadPath \in Path

VARIABLES
    file,    \* the registry file: a document, {} if there is none
    tmp,     \* the processes whose temporary file exists
    holder,  \* who holds the flock
    pc,      \* where each process is in its call
    call,    \* the call it makes
    new,     \* the document it is about to save
    answer   \* the outcome of the call, once it is decided

vars == <<file, tmp, holder, pc, call, new, answer>>

Locked == {"load", "mkstemp", "replace", "unlock"}

Saving == {"mkstemp", "replace"}

TypeOK ==
    /\ file = Malformed \/ file \subseteq Entry
    /\ tmp \subseteq Caller
    /\ holder \in Caller \cup {None}
    /\ pc \in [Caller -> {"idle", "lock", "read", "returned", "dead"} \cup Locked]
    /\ call \in [Caller -> Call \cup {NoCall}]
    /\ new \in [Caller -> SUBSET Entry]
    /\ answer \in [Caller -> {"none", "ok", "duplicate", "not_found", "schema_error",
                              "malformed", "os_error", "dead"}]

Init ==
    /\ file \in {{}, Malformed}
    /\ tmp = {}
    /\ holder = None
    /\ pc = [c \in Caller |-> "idle"]
    /\ call = [c \in Caller |-> NoCall]
    /\ new = [c \in Caller |-> {}]
    /\ answer = [c \in Caller |-> "none"]

Goto(c, l) == pc' = [pc EXCEPT ![c] = l]

Answers(c, a) == answer' = [answer EXCEPT ![c] = a]

Begin(c, o) ==
    /\ pc[c] = "idle"
    /\ call' = [call EXCEPT ![c] = o]
    /\ Goto(c, IF o.kind = "get" THEN "read" ELSE "lock")
    /\ UNCHANGED <<file, tmp, holder, new, answer>>

-----------------------------------------------------------------------------
(* _exclusive                                                              *)

\* Mutant: the lock is a shared one.
Lock_Shared(c) ==
    /\ pc[c] = "lock"
    /\ holder' = c
    /\ Goto(c, "load")
    /\ UNCHANGED <<file, tmp, call, new, answer>>

Lock(c) ==
    /\ pc[c] = "lock" /\ holder = None
    /\ holder' = c
    /\ Goto(c, "load")
    /\ UNCHANGED <<file, tmp, call, new, answer>>

\* The directory or the lock file cannot be made or opened.
LockFails(c) ==
    /\ pc[c] = "lock"
    /\ Answers(c, "os_error")
    /\ Goto(c, "returned")
    /\ UNCHANGED <<file, tmp, holder, call, new>>

Unlock(c) ==
    /\ pc[c] = "unlock"
    /\ holder' = IF holder = c THEN None ELSE holder
    /\ Goto(c, "returned")
    /\ UNCHANGED <<file, tmp, call, new, answer>>

-----------------------------------------------------------------------------
(* register, update and delete between the load and the save.              *)

Named(n) == {e \in file : e.name = n}

Raise(c, a) ==
    /\ Answers(c, a)
    /\ Goto(c, "unlock")
    /\ UNCHANGED <<file, tmp, holder, call, new>>

Save(c, doc) ==
    /\ new' = [new EXCEPT ![c] = doc]
    /\ Goto(c, "mkstemp")
    /\ UNCHANGED <<file, tmp, holder, call, answer>>

\* Mutant: a file that does not parse counts as an empty registry.
LoadFails_Empty(c) ==
    /\ pc[c] = "load" /\ file = Malformed
    /\ Save(c, {})

\* The file is no registry document, or cannot be read.
LoadFails(c) ==
    /\ pc[c] = "load"
    /\ \/ file = Malformed /\ Raise(c, "malformed")
       \/ Raise(c, "os_error")

Register(c) ==
    /\ pc[c] = "load" /\ call[c].kind = "register" /\ file # Malformed
    /\ \/ Named(call[c].name) # {} /\ Raise(c, "duplicate")
       \/ /\ Named(call[c].name) = {}
          /\ Save(c, file \cup {[name |-> call[c].name, path |-> call[c].path]})

\* The entry with the patch laid over it.
Merged(e, o) ==
    [name |-> IF o.to = None THEN e.name ELSE o.to,
     path |-> IF o.path = None THEN e.path ELSE o.path]

\* Mutant: a patched entry is saved as it is.
Valid_Always(f) == TRUE

\* RepoEntry.model_validate.
Valid(f) == f \in Entry

\* Mutant: a rename does not look for the new name.
Taken_Never(o) == FALSE

\* The new name belongs to another entry.
Taken(o) == o.to # None /\ o.to # o.name /\ Named(o.to) # {}

Update(c) ==
    /\ pc[c] = "load" /\ call[c].kind = "update" /\ file # Malformed
    /\ \/ Named(call[c].name) = {} /\ Raise(c, "not_found")
       \/ \E e \in Named(call[c].name) :
             \/ Taken(call[c]) /\ Raise(c, "duplicate")
             \/ /\ ~Taken(call[c]) /\ ~Valid(Merged(e, call[c]))
                /\ Raise(c, "schema_error")
             \/ /\ ~Taken(call[c]) /\ Valid(Merged(e, call[c]))
                /\ Save(c, (file \ {e}) \cup {Merged(e, call[c])})

Delete(c) ==
    /\ pc[c] = "load" /\ call[c].kind = "delete" /\ file # Malformed
    /\ \/ Named(call[c].name) = {} /\ Raise(c, "not_found")
       \/ \E e \in Named(call[c].name) : Save(c, file \ {e})

-----------------------------------------------------------------------------
(* save                                                                    *)

\* Nobody reads the temporary file: how far it is written is left out.
MakeTemp(c) ==
    /\ pc[c] = "mkstemp"
    /\ tmp' = tmp \cup {c}
    /\ Goto(c, "replace")
    /\ UNCHANGED <<file, holder, call, new, answer>>

Replace(c) ==
    /\ pc[c] = "replace"
    /\ file' = new[c]
    /\ tmp' = tmp \ {c}
    /\ Answers(c, "ok")
    /\ Goto(c, "unlock")
    /\ UNCHANGED <<holder, call, new>>

\* Mutant: the temporary file of a failed save is left behind.
SaveFails_Litters(c) ==
    /\ pc[c] \in Saving
    /\ Answers(c, "os_error")
    /\ Goto(c, "unlock")
    /\ UNCHANGED <<file, tmp, holder, call, new>>

\* An OSError of mkstemp, of the write or of the rename.
SaveFails(c) ==
    /\ pc[c] \in Saving
    /\ tmp' = tmp \ {c}
    /\ Answers(c, "os_error")
    /\ Goto(c, "unlock")
    /\ UNCHANGED <<file, holder, call, new>>

-----------------------------------------------------------------------------

\* get and list_repos: one read of whatever document is in place.
Get(c) ==
    /\ pc[c] = "read"
    /\ \/ file = Malformed /\ Answers(c, "malformed")
       \/ /\ file # Malformed
          /\ Answers(c, IF Named(call[c].name) = {} THEN "not_found" ELSE "ok")
       \/ Answers(c, "os_error")
    /\ Goto(c, "returned")
    /\ UNCHANGED <<file, tmp, holder, call, new>>

\* Mutant: a lock that outlives the process that took it.
Die_StaleLock(c) ==
    /\ pc[c] \in {"lock", "read"} \cup Locked
    /\ Answers(c, IF answer[c] = "none" THEN "dead" ELSE answer[c])
    /\ Goto(c, "dead")
    /\ UNCHANGED <<file, tmp, holder, call, new>>

\* The process is killed or interrupted: `except Exception` lets a
\* KeyboardInterrupt by, so the temporary file stays either way.
Die(c) ==
    /\ pc[c] \in {"lock", "read"} \cup Locked
    /\ holder' = IF holder = c THEN None ELSE holder
    /\ Answers(c, IF answer[c] = "none" THEN "dead" ELSE answer[c])
    /\ Goto(c, "dead")
    /\ UNCHANGED <<file, tmp, call, new>>

\* A step of the call of c under way.
Proceed(c) ==
    \/ Lock(c) \/ LoadFails(c) \/ Register(c) \/ Update(c) \/ Delete(c)
    \/ MakeTemp(c) \/ Replace(c) \/ Unlock(c) \/ Get(c)

\* What may go wrong at any time.
Fail(c) == LockFails(c) \/ SaveFails(c) \/ Die(c)

Next ==
    \E c \in Caller :
        \/ \E o \in Calls : Begin(c, o)
        \/ Proceed(c)
        \/ Fail(c)

Spec == Init /\ [][Next]_vars

-----------------------------------------------------------------------------
(* Properties.                                                             *)

\* No two entries of the registry have one name, although every caller
\* decides on a document it loaded earlier (store.py:86-88, 110-121).
UniqueNames ==
    file # Malformed =>
        \A e, f \in file : e.name = f.name => e = f

\* A temporary file is only ever that of a save under way or of a process
\* that died in one: a failed save removes its own (store.py:77-80).
NoLitter == \A c \in tmp : pc[c] \in {"replace", "dead"}

\* A file that does not parse is left for the operator, never replaced.
MalformedKept == [][file = Malformed => file' = Malformed]_vars

\* Each call takes effect at one instant or not at all, and its answer says
\* which: the store implements the abstract registry.
Abstract == INSTANCE Registry WITH repos <- file

Refines == Abstract!Spec
=============================================================================
