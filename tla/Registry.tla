------------------------------ MODULE Registry ------------------------------
(***************************************************************************)
(* What the registry promises its callers: one set of repositories, on     *)
(* which every register, update and delete takes effect at one instant or  *)
(* not at all, whatever other callers do and wherever a caller dies        *)
(* (the module docstring of src/zen/registry/store.py).                    *)
(***************************************************************************)
CONSTANTS
    Caller,     \* the processes that call the store, one call each
    Name, Path, \* what an entry is made of
    BadPath,    \* a path RepoEntry refuses
    Malformed,  \* a file that is no registry document
    None

Entry == [name : Name, path : Path \ {BadPath}]

\* A call: an update's patch may leave out the name (to) or the path.
Call == [kind : {"register", "update", "delete", "get"},
         name : Name, to : Name \cup {None}, path : Path \cup {None}]

NoCall == [kind |-> "none"]

Answer == {"none", "ok", "duplicate", "not_found", "schema_error", "malformed",
           "os_error", "dead"}

VARIABLES repos, call, answer

Init ==
    /\ repos \in {{}, Malformed}
    /\ call = [c \in Caller |-> NoCall]
    /\ answer = [c \in Caller |-> "none"]

Ask(c) ==
    /\ call[c] = NoCall
    /\ \E o \in Call : call' = [call EXCEPT ![c] = o]
    /\ UNCHANGED <<repos, answer>>

Say(c, a) ==
    /\ call[c] # NoCall /\ answer[c] = "none"
    /\ answer' = [answer EXCEPT ![c] = a]
    /\ UNCHANGED call

Named(n) == {e \in repos : e.name = n}

Registers(c) ==
    /\ call[c].kind = "register" /\ repos # Malformed
    /\ IF Named(call[c].name) = {}
       THEN /\ repos' = repos \cup {[name |-> call[c].name, path |-> call[c].path]}
            /\ Say(c, "ok")
       ELSE Say(c, "duplicate") /\ UNCHANGED repos

Deletes(c) ==
    /\ call[c].kind = "delete" /\ repos # Malformed
    /\ IF Named(call[c].name) # {}
       THEN repos' = repos \ Named(call[c].name) /\ Say(c, "ok")
       ELSE Say(c, "not_found") /\ UNCHANGED repos

\* An update replaces the named entry by one valid entry that takes no other
\* entry's name.
Updates(c) ==
    /\ call[c].kind = "update" /\ repos # Malformed
    /\ \/ \E e \in Named(call[c].name), f \in Entry :
             /\ f.name = (IF call[c].to = None THEN e.name ELSE call[c].to)
             /\ f.path = (IF call[c].path = None THEN e.path ELSE call[c].path)
             /\ Named(f.name) \subseteq {e}
             /\ repos' = (repos \ {e}) \cup {f}
             /\ Say(c, "ok")
       \/ Named(call[c].name) = {} /\ Say(c, "not_found") /\ UNCHANGED repos
       \/ Named(call[c].to) # {} /\ Say(c, "duplicate") /\ UNCHANGED repos
       \/ call[c].path = BadPath /\ Say(c, "schema_error") /\ UNCHANGED repos

Gets(c) ==
    /\ call[c].kind = "get" /\ repos # Malformed
    /\ Say(c, IF Named(call[c].name) = {} THEN "not_found" ELSE "ok")
    /\ UNCHANGED repos

\* A call may fail without effect: the file is no registry, cannot be
\* written, or the caller dies.
Fails(c) ==
    /\ \/ repos = Malformed /\ Say(c, "malformed")
       \/ Say(c, "os_error")
       \/ Say(c, "dead")
    /\ UNCHANGED repos

Next ==
    \E c \in Caller :
        \/ Ask(c)
        \/ Registers(c) \/ Deletes(c) \/ Updates(c) \/ Gets(c) \/ Fails(c)

vars == <<repos, call, answer>>

Spec == Init /\ [][Next]_vars
=============================================================================
