--------------------------- MODULE RegistryProofs ---------------------------
(* Proofs about RegistryStore and RegistryCli, for every value of their    *)
(* constants.                                                              *)
EXTENDS RegistryCli, TLAPS


-----------------------------------------------------------------------------
(* The inductive invariant.  Unique names survive a save because the       *)
(* document about to be saved is still what the call makes of the file     *)
(* (Fresh), and it is because nobody else saves while the flock is held    *)
(* (FlockInv).                                                             *)

FlockInv == \A c \in Caller : pc[c] \in Locked => holder = c

CallInv ==
    \A c \in Caller :
        /\ call[c] \in Calls \cup {NoCall}
        /\ pc[c] = "idle" <=> call[c] = NoCall
        /\ pc[c] \in {"idle", "lock", "read", "load"} \cup Saving => answer[c] = "none"
        /\ pc[c] = "read" => call[c].kind = "get"
        /\ pc[c] \in {"lock"} \cup Locked => call[c].kind # "get"

\* What the call o makes of the registry file.
Outcome(o, doc) ==
    \/ /\ o.kind = "register" /\ Named(o.name) = {}
       /\ doc = file \cup {[name |-> o.name, path |-> o.path]}
    \/ /\ o.kind = "update" /\ ~Taken(o)
       /\ \E e \in Named(o.name) :
             Valid(Merged(e, o)) /\ doc = (file \ {e}) \cup {Merged(e, o)}
    \/ /\ o.kind = "delete"
       /\ \E e \in Named(o.name) : doc = file \ {e}

Fresh ==
    \A c \in Caller :
        pc[c] \in Saving => file # Malformed /\ Outcome(call[c], new[c])

StoreInv == TypeOK /\ FlockInv /\ CallInv /\ Fresh /\ UniqueNames

LEMMA NoCallIsNone == NoCall \notin Calls /\ NoCall \notin Call
<1>1. \A o \in Call : o.kind # "none"
  BY DEF Call
<1> QED
  BY <1>1, CallsAssumption DEF NoCall

LEMMA StoreInit == Init => StoreInv
<1> SUFFICES ASSUME Init PROVE StoreInv
  OBVIOUS
<1>1. TypeOK
  BY DEF Init, TypeOK
<1>2. FlockInv /\ CallInv /\ Fresh
  BY DEF Init, FlockInv, CallInv, Fresh, Locked, Saving
<1>3. UniqueNames
  BY DEF Init, UniqueNames
<1> QED
  BY <1>1, <1>2, <1>3 DEF StoreInv

\* Saving what a call makes of a registry with unique names keeps them so.
LEMMA OutcomeUnique ==
    ASSUME StoreInv, NEW c \in Caller, pc[c] \in Saving
    PROVE  \A e, f \in new[c] : e.name = f.name => e = f
<1>1. Outcome(call[c], new[c]) /\ file # Malformed
  BY DEF StoreInv, Fresh
<1>2. \A e, f \in file : e.name = f.name => e = f
  BY <1>1 DEF StoreInv, UniqueNames
<1> DEFINE o == call[c]
<1>3. CASE o.kind = "register"
  BY <1>1, <1>2, <1>3 DEF Outcome, Named
<1>4. CASE o.kind = "update"
  <2>1. PICK e \in Named(o.name) : new[c] = (file \ {e}) \cup {Merged(e, o)}
    BY <1>1, <1>4 DEF Outcome
  <2>2. e \in file /\ e.name = o.name
    BY <2>1 DEF Named
  <2>3. Merged(e, o).name = IF o.to = None THEN o.name ELSE o.to
    BY <2>2 DEF Merged
  <2>4. \A f \in file \ {e} : f.name # Merged(e, o).name
    BY <1>1, <1>2, <1>4, <2>2, <2>3 DEF Outcome, Taken, Named
  <2> QED
    BY <1>2, <2>1, <2>4
<1>5. CASE o.kind = "delete"
  BY <1>1, <1>2, <1>5 DEF Outcome
<1> QED
  BY <1>1, <1>3, <1>4, <1>5 DEF Outcome

\* Every step keeps the invariant: steps <1>a to <1>i, one per kind of action.
LEMMA StoreNext == StoreInv /\ [Next]_vars => StoreInv'
<1> SUFFICES ASSUME StoreInv, [Next]_vars PROVE StoreInv'
  OBVIOUS
<1> USE DEF StoreInv
<1>0. CASE UNCHANGED vars
  BY <1>0 DEF vars, TypeOK, FlockInv, CallInv, Fresh, UniqueNames, Outcome, Named, Taken
<1>a. ASSUME NEW c \in Caller, NEW o \in Calls, Begin(c, o)
      PROVE  StoreInv'
  <2>1. TypeOK'
    BY <1>a, CallsAssumption DEF Begin, Goto, TypeOK
  <2>2. FlockInv' /\ CallInv'
    BY <1>a, NoCallIsNone DEF Begin, Goto, TypeOK, FlockInv, CallInv, Locked, Saving
  <2>3. Fresh' /\ UniqueNames'
    BY <1>a DEF Begin, Goto, TypeOK, Fresh, UniqueNames, Saving, Outcome, Named, Taken
  <2> QED
    BY <2>1, <2>2, <2>3
<1>b. ASSUME NEW c \in Caller, Lock(c)
      PROVE  StoreInv'
  <2>1. TypeOK' /\ CallInv'
    BY <1>b DEF Lock, Goto, TypeOK, CallInv, Locked, Saving
  <2>2. FlockInv'
    BY <1>b, NoneAssumption DEF Lock, Goto, TypeOK, FlockInv
  <2>3. Fresh' /\ UniqueNames'
    BY <1>b DEF Lock, Goto, TypeOK, Fresh, UniqueNames, Saving, Outcome, Named, Taken
  <2> QED
    BY <2>1, <2>2, <2>3
<1>c. ASSUME NEW c \in Caller, Unlock(c) \/ Die(c) \/ LockFails(c)
      PROVE  StoreInv'
  <2>1. TypeOK' /\ CallInv'
    BY <1>c DEF Unlock, Die, LockFails, Answers, Goto, TypeOK, CallInv, Locked, Saving
  <2>2. FlockInv'
    BY <1>c DEF Unlock, Die, LockFails, Goto, TypeOK, FlockInv, Locked
  <2>3. Fresh' /\ UniqueNames'
    BY <1>c DEF Unlock, Die, LockFails, Goto, TypeOK, Fresh, UniqueNames, Saving, Outcome, Named, Taken
  <2> QED
    BY <2>1, <2>2, <2>3
<1>d. ASSUME NEW c \in Caller,
             NEW a \in {"duplicate", "not_found", "schema_error", "malformed", "os_error"},
             pc[c] = "load", Raise(c, a)
      PROVE  StoreInv'
  <2>1. TypeOK' /\ FlockInv' /\ CallInv'
    BY <1>d DEF Raise, Answers, Goto, TypeOK, FlockInv, CallInv, Locked, Saving
  <2>2. Fresh' /\ UniqueNames'
    BY <1>d DEF Raise, Goto, TypeOK, Fresh, UniqueNames, Saving, Outcome, Named, Taken
  <2> QED
    BY <2>1, <2>2
<1>e. ASSUME NEW c \in Caller, NEW doc \in SUBSET Entry, pc[c] = "load", Save(c, doc),
             file # Malformed, Outcome(call[c], doc)
      PROVE  StoreInv'
  <2>1. TypeOK' /\ FlockInv' /\ CallInv'
    BY <1>e DEF Save, Goto, TypeOK, FlockInv, CallInv, Locked, Saving
  <2>2. \A d \in Caller : d # c => pc[d] \notin Saving
    BY <1>e DEF FlockInv, Locked, Saving
  <2>3. Fresh'
    <3>1. Outcome(call[c], doc)'  <=> Outcome(call[c], doc)
      BY <1>e DEF Save, Outcome, Named, Taken
    <3> QED
      BY <1>e, <2>2, <3>1 DEF Save, Goto, TypeOK, Fresh, Outcome, Named, Taken
  <2>4. UniqueNames'
    BY <1>e DEF Save, UniqueNames
  <2> QED
    BY <2>1, <2>3, <2>4
<1>f. ASSUME NEW c \in Caller, LoadFails(c) \/ Register(c) \/ Update(c) \/ Delete(c)
      PROVE  StoreInv'
  <2>1. CASE LoadFails(c)
    BY <1>d, <2>1 DEF LoadFails
  <2>2. CASE Register(c)
    <3>1. call[c] \in Calls /\ call[c].kind = "register" /\ file \subseteq Entry
      BY <2>2, NoCallIsNone DEF Register, CallInv, TypeOK
    <3>2. [name |-> call[c].name, path |-> call[c].path] \in Entry
      BY <3>1, CallsAssumption DEF Call, Entry
    <3> QED
      BY <1>d, <1>e, <2>2, <3>1, <3>2 DEF Register, Outcome
  <2>3. CASE Update(c)
    <3>1. file \subseteq Entry
      BY <2>3 DEF Update, TypeOK
    <3> QED
      BY <1>d, <1>e, <2>3, <3>1 DEF Update, Outcome, Valid
  <2>4. CASE Delete(c)
    <3>1. file \subseteq Entry
      BY <2>4 DEF Delete, TypeOK
    <3> QED
      BY <1>d, <1>e, <2>4, <3>1 DEF Delete, Outcome
  <2> QED
    BY <1>f, <2>1, <2>2, <2>3, <2>4
<1>g. ASSUME NEW c \in Caller, MakeTemp(c) \/ SaveFails(c)
      PROVE  StoreInv'
  <2>1. TypeOK' /\ FlockInv' /\ CallInv'
    BY <1>g DEF MakeTemp, SaveFails, Answers, Goto, TypeOK, FlockInv, CallInv, Locked, Saving
  <2>2. Fresh' /\ UniqueNames'
    BY <1>g DEF MakeTemp, SaveFails, Goto, TypeOK, Fresh, UniqueNames, Saving, Outcome, Named, Taken
  <2> QED
    BY <2>1, <2>2
<1>h. ASSUME NEW c \in Caller, Replace(c)
      PROVE  StoreInv'
  <2>1. TypeOK' /\ FlockInv' /\ CallInv'
    BY <1>h DEF Replace, Answers, Goto, TypeOK, FlockInv, CallInv, Locked, Saving
  <2>2. \A d \in Caller : pc'[d] \notin Saving
    BY <1>h DEF Replace, Goto, TypeOK, FlockInv, Locked, Saving
  <2>3. UniqueNames'
    BY <1>h, OutcomeUnique DEF Replace, Saving, UniqueNames
  <2> QED
    BY <2>1, <2>2, <2>3 DEF Fresh
<1>i. ASSUME NEW c \in Caller, Get(c)
      PROVE  StoreInv'
  <2>1. TypeOK' /\ FlockInv' /\ CallInv'
    BY <1>i DEF Get, Answers, Goto, TypeOK, FlockInv, CallInv, Locked, Saving
  <2>2. Fresh' /\ UniqueNames'
    BY <1>i DEF Get, Goto, TypeOK, Fresh, UniqueNames, Saving, Outcome, Named, Taken
  <2> QED
    BY <2>1, <2>2
<1> QED
  BY <1>0, <1>a, <1>b, <1>c, <1>f, <1>g, <1>h, <1>i DEF Next, Proceed, Fail

LEMMA StoreInvariant == Spec => []StoreInv
BY StoreInit, StoreNext, PTL DEF Spec

\* No two entries of the registry ever share a name.
THEOREM NamesStayUnique == Spec => []UniqueNames
<1>1. StoreInv => UniqueNames
  BY DEF StoreInv
<1> QED
  BY <1>1, StoreInvariant, PTL

\* A registry file that does not parse is never replaced: a call that loads
\* it fails, and what another is about to save was made of a file that parsed.
THEOREM MalformedFileIsKept == Spec => MalformedKept
<1>1. ASSUME StoreInv, [Next]_vars, file = Malformed
      PROVE  file' = Malformed
  <2>1. \A c \in Caller : ~Replace(c)
    BY <1>1 DEF StoreInv, Fresh, Replace, Saving
  <2>2. UNCHANGED file
    BY <1>1, <2>1 DEF Next, Proceed, Fail, vars, Begin, Lock, LockFails, Unlock, LoadFails,
       Register, Update, Delete, Raise, Save, MakeTemp, SaveFails, Get, Die
  <2> QED
    BY <1>1, <2>2
<1>2. StoreInv /\ [Next]_vars => [file = Malformed => file' = Malformed]_vars
  BY <1>1
<1> QED
  BY <1>2, StoreInvariant, PTL DEF Spec, MalformedKept

\* No call that returned left a temporary file behind, whatever failed in it.
THEOREM FailedSavesCleanUp == Spec => []NoLitter
<1>1. Init => NoLitter
  BY DEF Init, NoLitter
<1>2. StoreInv /\ NoLitter /\ [Next]_vars => NoLitter'
  <2> SUFFICES ASSUME StoreInv, NoLitter, [Next]_vars
               PROVE  NoLitter'
    OBVIOUS
  <2> USE DEF StoreInv, TypeOK, NoLitter, Goto
  <2>1. ASSUME NEW c \in Caller, MakeTemp(c) \/ Replace(c) \/ SaveFails(c) \/ Die(c)
        PROVE  NoLitter'
    BY <2>1 DEF MakeTemp, Replace, SaveFails, Die, Saving
  <2>2. ASSUME NEW c \in Caller,
               Lock(c) \/ LockFails(c) \/ Unlock(c) \/ Get(c) \/ \E o \in Calls : Begin(c, o)
        PROVE  NoLitter'
    BY <2>2 DEF Lock, LockFails, Unlock, Get, Begin
  <2>3. ASSUME NEW c \in Caller, LoadFails(c) \/ Register(c) \/ Update(c) \/ Delete(c)
        PROVE  NoLitter'
    BY <2>3 DEF LoadFails, Register, Update, Delete, Raise, Save
  <2>4. CASE UNCHANGED vars
    BY <2>4 DEF vars
  <2> QED
    BY <2>1, <2>2, <2>3, <2>4 DEF Next, Proceed, Fail
<1> QED
  BY <1>1, <1>2, StoreInvariant, PTL DEF Spec

-----------------------------------------------------------------------------
(* The store implements the abstract registry.  The step that counts is    *)
(* Replace: Fresh says that what it puts in place is what the abstract     *)
(* operation makes of the file at that instant.                            *)

LEMMA RefinedInit == Init => Abstract!Init
BY DEF Init, Abstract!Init, NoCall, Abstract!NoCall

\* A rejected call is an abstract call that fails.
LEMMA RefinedRaise ==
    ASSUME StoreInv, NEW c \in Caller, LoadFails(c) \/ Register(c) \/ Update(c) \/ Delete(c)
    PROVE  Abstract!Next \/ UNCHANGED Abstract!vars
<1> USE DEF StoreInv
<1>1. call[c] # NoCall /\ answer[c] = "none" /\ pc[c] = "load"
  BY DEF LoadFails, Register, Update, Delete, CallInv
<1>2. ASSUME NEW a, Raise(c, a)
      PROVE  Abstract!Say(c, a) /\ UNCHANGED file
  BY <1>1, <1>2 DEF Raise, Answers, NoCall, Abstract!Say, Abstract!NoCall
<1>3. ASSUME NEW doc, Save(c, doc)
      PROVE  UNCHANGED Abstract!vars
  BY <1>3 DEF Save, Abstract!vars
<1>4. CASE LoadFails(c)
  BY <1>2, <1>4 DEF LoadFails, Abstract!Next, Abstract!Fails
<1>5. CASE Register(c)
  BY <1>2, <1>3, <1>5 DEF Register, Named, Abstract!Next, Abstract!Registers, Abstract!Named
<1>6. CASE Update(c)
  <2>1. CASE Named(call[c].name) = {} /\ Raise(c, "not_found")
    BY <1>2, <1>6, <2>1 DEF Update, Named, Abstract!Next, Abstract!Updates, Abstract!Named
  <2>2. CASE Taken(call[c]) /\ Raise(c, "duplicate")
    BY <1>2, <1>6, <2>2
    DEF Update, Taken, Named, Abstract!Next, Abstract!Updates, Abstract!Named
  <2>3. ASSUME NEW e \in Named(call[c].name), ~Valid(Merged(e, call[c])),
               Raise(c, "schema_error")
        PROVE  Abstract!Next
    <3>1. e \in Entry /\ call[c] \in Call
      BY <1>1, <1>6, <2>3, CallsAssumption DEF Update, Named, TypeOK, CallInv
    <3>2. call[c].path = BadPath
      BY <2>3, <3>1 DEF Valid, Merged, Entry, Call
    <3> QED
      BY <1>2, <1>6, <2>3, <3>2 DEF Update, Abstract!Next, Abstract!Updates
  <2> QED
    BY <1>3, <1>6, <2>1, <2>2, <2>3 DEF Update
<1>7. CASE Delete(c)
  BY <1>2, <1>3, <1>7 DEF Delete, Named, Abstract!Next, Abstract!Deletes, Abstract!Named
<1> QED
  BY <1>4, <1>5, <1>6, <1>7

LEMMA RefinedReplace ==
    ASSUME StoreInv, NEW c \in Caller, Replace(c)
    PROVE  Abstract!Next
<1> DEFINE o == call[c]
<1>1. /\ pc[c] \in Saving /\ call[c] # NoCall
      /\ file # Malformed /\ Outcome(o, new[c])
      /\ o \in Call
  BY CallsAssumption DEF Replace, Saving, StoreInv, Fresh, CallInv
<1>2. Abstract!Say(c, "ok") /\ file' = new[c]
  BY <1>1 DEF Replace, Answers, Saving, StoreInv, CallInv, NoCall, Abstract!Say, Abstract!NoCall
<1>3. \A e, f \in file : e.name = f.name => e = f
  BY <1>1 DEF StoreInv, UniqueNames
<1>4. CASE o.kind = "register"
  BY <1>1, <1>2, <1>4 DEF Outcome, Named, Abstract!Next, Abstract!Registers, Abstract!Named
<1>5. CASE o.kind = "update"
  <2>1. PICK e \in Named(o.name) :
            Valid(Merged(e, o)) /\ new[c] = (file \ {e}) \cup {Merged(e, o)}
    BY <1>1, <1>5 DEF Outcome
  <2>2. e \in file /\ e.name = o.name
    BY <2>1 DEF Named
  <2>3. Abstract!Named(Merged(e, o).name) \subseteq {e}
    BY <1>1, <1>3, <1>5, <2>2 DEF Outcome, Taken, Named, Merged, Abstract!Named
  <2>4. Merged(e, o) \in Abstract!Entry /\ e \in Abstract!Named(o.name)
    BY <2>1, <2>2 DEF Valid, Entry, Abstract!Entry, Abstract!Named
  <2>5. /\ Merged(e, o).name = (IF o.to = None THEN e.name ELSE o.to)
        /\ Merged(e, o).path = (IF o.path = None THEN e.path ELSE o.path)
    BY DEF Merged
  <2>6. Abstract!Updates(c)
    BY <1>1, <1>2, <1>5, <2>1, <2>3, <2>4, <2>5 DEF Abstract!Updates
  <2> QED
    BY <2>6 DEF Abstract!Next
<1>6. CASE o.kind = "delete"
  <2>1. PICK e \in Named(o.name) : new[c] = file \ {e}
    BY <1>1, <1>6 DEF Outcome
  <2>2. Abstract!Named(o.name) = {e}
    BY <1>3, <2>1 DEF Named, Abstract!Named
  <2>3. Abstract!Deletes(c)
    BY <1>1, <1>2, <1>6, <2>1, <2>2 DEF Abstract!Deletes
  <2> QED
    BY <2>3 DEF Abstract!Next
<1> QED
  BY <1>1, <1>4, <1>5, <1>6 DEF Outcome

LEMMA RefinedNext ==
    ASSUME StoreInv, [Next]_vars
    PROVE  Abstract!Next \/ UNCHANGED Abstract!vars
<1> USE DEF StoreInv
<1>1. CASE UNCHANGED vars
  BY <1>1 DEF vars, Abstract!vars
<1>2. ASSUME NEW c \in Caller, NEW o \in Calls, Begin(c, o)
      PROVE  Abstract!Next
  <2>1. o \in Abstract!Call
    BY CallsAssumption DEF Call, Abstract!Call
  <2>2. Abstract!Ask(c)
    BY <1>2, <2>1 DEF Begin, CallInv, NoCall, Abstract!Ask, Abstract!NoCall
  <2> QED
    BY <2>2 DEF Abstract!Next
<1>3. ASSUME NEW c \in Caller, Lock(c) \/ Unlock(c) \/ MakeTemp(c)
      PROVE  UNCHANGED Abstract!vars
  BY <1>3 DEF Lock, Unlock, MakeTemp, Abstract!vars
<1>4. ASSUME NEW c \in Caller, NEW a \in {"os_error", "dead"},
             Answers(c, a), UNCHANGED <<file, call>>,
             answer[c] = "none", call[c] # NoCall
      PROVE  Abstract!Next
  BY <1>4 DEF Answers, NoCall, Abstract!Next, Abstract!Fails, Abstract!Say, Abstract!NoCall
<1>5. ASSUME NEW c \in Caller, Fail(c)
      PROVE  Abstract!Next \/ UNCHANGED Abstract!vars
  <2>1. pc[c] # "idle" /\ call[c] # NoCall
    BY <1>5 DEF Fail, LockFails, SaveFails, Die, Saving, Locked, CallInv
  <2>2. CASE answer[c] = "none"
    BY <1>4, <1>5, <2>1, <2>2 DEF Fail, LockFails, SaveFails, Die
  <2>3. CASE answer[c] # "none"
    <3>1. Die(c)
      BY <1>5, <2>3 DEF Fail, LockFails, SaveFails, CallInv
    <3>2. answer' = answer
      BY <2>3, <3>1 DEF Die, Answers, TypeOK
    <3> QED
      BY <3>1, <3>2 DEF Die, Abstract!vars
  <2> QED
    BY <2>2, <2>3
<1>6. ASSUME NEW c \in Caller, Get(c)
      PROVE  Abstract!Next
  <2>1. pc[c] = "read" /\ answer[c] = "none" /\ call[c] # NoCall /\ call[c].kind = "get"
    BY <1>6 DEF Get, CallInv
  <2> QED
    BY <1>6, <2>1 DEF Get, Answers, Named, NoCall, Abstract!Next, Abstract!Gets,
       Abstract!Fails, Abstract!Say, Abstract!Named, Abstract!NoCall
<1> QED
  BY <1>1, <1>2, <1>3, <1>5, <1>6, RefinedRaise, RefinedReplace DEF Next, Proceed

\* Every register, update and delete takes effect at one instant or not at
\* all, with the answer the abstract registry gives at that instant.
THEOREM StoreRefinesRegistry == Spec => Refines
<1>1. Init => Abstract!Init
  BY RefinedInit
<1>2. StoreInv /\ [Next]_vars => [Abstract!Next]_(Abstract!vars)
  BY RefinedNext
<1> QED
  BY <1>1, <1>2, StoreInvariant, PTL DEF Spec, Refines, Abstract!Spec


-----------------------------------------------------------------------------
(* The command line only ever steps the store as its own specification     *)
(* allows, so what is proved of the store holds under it.                  *)

LEMMA CliStepsStore == [CliNext]_cliVars => [Next]_vars
<1>1. ASSUME NEW c \in Caller, NEW o \in Calls, Refuse(c, o) \/ Invoke(c, o)
      PROVE  [Next]_vars
  BY <1>1 DEF Refuse, Invoke, Next
<1>2. ASSUME NEW c \in Caller, CliStep(c)
      PROVE  [Next]_vars
  BY <1>2 DEF CliStep, InStore, SyncRegister, SyncBuild, SyncUnregister, Next
<1> QED
  BY <1>1, <1>2 DEF CliNext, cliVars

LEMMA CliRunsStore == CliSpec => Spec
BY CliStepsStore, PTL DEF CliSpec, CliInit, Spec

\* Under the command line too, each call takes effect at one instant.
THEOREM CliRefinesRegistry == CliSpec => Refines
BY CliRunsStore, StoreRefinesRegistry, PTL

-----------------------------------------------------------------------------
(* Allowed roots.  The check precedes the lock and covers only the path of *)
(* the patch, so the entry that is saved is allowed because the one it     *)
(* patches was: that is an invariant of the file, not of the check.        *)

RootsInv ==
    /\ StoreInv
    /\ \A c \in Caller : call[c] # NoCall => PathAllowed(call[c])
    /\ OnlyAllowedRoots

LEMMA OutcomeAllowed ==
    ASSUME RootsInv, NEW c \in Caller, pc[c] \in Saving
    PROVE  \A e \in new[c] : e.path \in Allowed
<1> DEFINE o == call[c]
<1>1. /\ Outcome(o, new[c]) /\ PathAllowed(o) /\ o \in Calls
      /\ \A e \in file : e.path \in Allowed
  BY DEF RootsInv, StoreInv, Fresh, CallInv, OnlyAllowedRoots, Saving
<1>2. CASE o.kind = "register"
  <2>1. o.path \in Allowed
    BY <1>1, <1>2, CallsAssumption, NoneAssumption DEF PathAllowed
  <2> QED
    BY <1>1, <1>2, <2>1 DEF Outcome
<1>3. CASE o.kind = "update"
  <2>1. PICK e \in Named(o.name) : new[c] = (file \ {e}) \cup {Merged(e, o)}
    BY <1>1, <1>3 DEF Outcome
  <2>2. Merged(e, o).path \in Allowed
    BY <1>1, <1>3, <2>1 DEF PathAllowed, Merged, Named
  <2> QED
    BY <1>1, <2>1, <2>2
<1>4. CASE o.kind = "delete"
  BY <1>1, <1>4 DEF Outcome
<1> QED
  BY <1>1, <1>2, <1>3, <1>4 DEF Outcome

LEMMA RootsInit == CliInit => RootsInv
<1>1. CliInit => StoreInv
  BY StoreInit DEF CliInit
<1> QED
  BY <1>1 DEF CliInit, Init, RootsInv, OnlyAllowedRoots

LEMMA RootsNext == RootsInv /\ [CliNext]_cliVars => RootsInv'
<1> SUFFICES ASSUME RootsInv, [CliNext]_cliVars PROVE RootsInv'
  OBVIOUS
<1>1. StoreInv'
  BY CliStepsStore, StoreNext DEF RootsInv
<1>2. CASE UNCHANGED cliVars
  BY <1>1, <1>2 DEF RootsInv, OnlyAllowedRoots, PathAllowed, cliVars, vars, crgVars
<1>3. ASSUME NEW c \in Caller, NEW o \in Calls, Refuse(c, o)
      PROVE  RootsInv'
  BY <1>1, <1>3 DEF Refuse, RootsInv, OnlyAllowedRoots, PathAllowed, vars, crgVars
<1>4. ASSUME NEW c \in Caller, NEW o \in Calls, Invoke(c, o)
      PROVE  RootsInv'
  BY <1>1, <1>4 DEF Invoke, Begin, RootsInv, StoreInv, TypeOK, OnlyAllowedRoots,
     PathAllowed, crgVars
<1>5. ASSUME NEW c \in Caller, InStore(c)
      PROVE  RootsInv'
  <2>1. UNCHANGED <<call, aliases, built>>
    BY <1>5 DEF InStore, crgVars, Proceed, Fail, Lock, LockFails, Unlock, LoadFails,
       Register, Update, Delete, Raise, Save, MakeTemp, Replace, SaveFails, Get, Die
  <2>2. CASE Replace(c)
    <3>1. \A e \in file' : e.path \in Allowed
      BY <2>2, OutcomeAllowed DEF Replace, Saving
    <3> QED
      BY <1>1, <2>1, <3>1 DEF RootsInv, OnlyAllowedRoots, PathAllowed
  <2>3. CASE ~Replace(c)
    <3>1. UNCHANGED file
      BY <1>5, <2>3 DEF InStore, Proceed, Fail, Lock, LockFails, Unlock, LoadFails,
         Register, Update, Delete, Raise, Save, MakeTemp, SaveFails, Get, Die
    <3> QED
      BY <1>1, <2>1, <3>1 DEF RootsInv, OnlyAllowedRoots, PathAllowed
  <2> QED
    BY <2>2, <2>3
<1>6. ASSUME NEW c \in Caller, SyncRegister(c) \/ SyncBuild(c)
      PROVE  RootsInv'
  <2>1. call[c].kind = "register" /\ call[c] \in Calls /\ PathAllowed(call[c])
    BY <1>6, NoCallIsNone
    DEF SyncRegister, SyncBuild, Returned, RootsInv, StoreInv, CallInv
  <2>2. call[c].path \in Allowed
    BY <2>1, CallsAssumption, NoneAssumption DEF PathAllowed
  <2>3. /\ \A e \in aliases' : e.path \in Allowed
        /\ built' \subseteq Allowed
    BY <1>6, <2>2
    DEF SyncRegister, SyncBuild, Invokes, AliasesAfter, RootsInv, OnlyAllowedRoots
  <2> QED
    BY <1>1, <1>6, <2>3
    DEF SyncRegister, SyncBuild, RootsInv, OnlyAllowedRoots, PathAllowed, vars
<1>7. ASSUME NEW c \in Caller, SyncUnregister(c)
      PROVE  RootsInv'
  <2>1. aliases' \subseteq aliases
    BY <1>7 DEF SyncUnregister, Returned, Invokes, AliasesAfter
  <2> QED
    BY <1>1, <1>7, <2>1
    DEF SyncUnregister, RootsInv, OnlyAllowedRoots, PathAllowed, vars
<1> QED
  BY <1>2, <1>3, <1>4, <1>5, <1>6, <1>7 DEF CliNext, CliStep

\* Nothing outside the allowed roots is ever registered, aliased or indexed,
\* whatever registers, patches and deletes overlap and wherever one dies.
THEOREM OnlyAllowedRootsRegistered == CliSpec => []OnlyAllowedRoots
<1>1. RootsInv => OnlyAllowedRoots
  BY DEF RootsInv
<1> QED
  BY <1>1, RootsInit, RootsNext, PTL DEF CliSpec

\* The entries of CRG, its index and the state of the store keep their types.
THEOREM CliTypeCorrect == CliSpec => []CliTypeOK
<1>1. RootsInv => TypeOK
  BY DEF RootsInv, StoreInv
<1>2. CliInit => CliTypeOK
  BY DEF CliInit, Init, TypeOK, CliTypeOK
<1>3. RootsInv /\ CliTypeOK /\ TypeOK' /\ [CliNext]_cliVars => CliTypeOK'
  <2> SUFFICES ASSUME RootsInv, CliTypeOK, TypeOK', [CliNext]_cliVars PROVE CliTypeOK'
    OBVIOUS
  <2> USE DEF CliTypeOK
  <2>1. CASE UNCHANGED cliVars
    BY <2>1 DEF cliVars, crgVars
  <2>2. ASSUME NEW c \in Caller, NEW o \in Calls, Refuse(c, o) \/ Invoke(c, o)
        PROVE  CliTypeOK'
    BY <2>2 DEF Refuse, Invoke, crgVars
  <2>3. ASSUME NEW c \in Caller, InStore(c)
        PROVE  CliTypeOK'
    BY <2>3 DEF InStore, crgVars
  <2>4. ASSUME NEW c \in Caller, SyncRegister(c) \/ SyncBuild(c)
        PROVE  CliTypeOK'
    <3>1. call[c].kind = "register" /\ call[c] \in Calls
      BY <2>4, NoCallIsNone
      DEF SyncRegister, SyncBuild, Returned, RootsInv, StoreInv, CallInv
    <3>2. call[c].name \in Name /\ call[c].path \in Path \ {BadPath}
      BY <3>1, CallsAssumption DEF Call
    <3>3. aliases' \subseteq Entry /\ built' \subseteq Path
      BY <2>4, <3>2 DEF SyncRegister, SyncBuild, Invokes, AliasesAfter, Entry
    <3> QED
      BY <2>4, <3>3 DEF SyncRegister, SyncBuild
  <2>5. ASSUME NEW c \in Caller, SyncUnregister(c)
        PROVE  CliTypeOK'
    <3>1. aliases' \subseteq aliases
      BY <2>5 DEF SyncUnregister, Returned, Invokes, AliasesAfter
    <3> QED
      BY <2>5, <3>1 DEF SyncUnregister
  <2> QED
    BY <2>1, <2>2, <2>3, <2>4, <2>5 DEF CliNext, CliStep
<1> QED
  BY <1>1, <1>2, <1>3, RootsInit, RootsNext, PTL DEF CliSpec
==============================================================================
