---------------------------- MODULE RegistryCli ----------------------------
(***************************************************************************)
(* The registry command line (src/zen/registry/cli.py): each invocation is *)
(* a process that checks its input, calls the store, and, after the        *)
(* store's lock is gone, tells the code-review-graph CLI (CRG) of a        *)
(* registered or deleted repository (src/zen/code_graph/crg_sync.py).      *)
(***************************************************************************)
EXTENDS RegistryStore

CONSTANTS
    Allowed,      \* the paths under CODE_GRAPH_ALLOWED_ROOTS
    SyncMayFail   \* CRG may be missing, fail or time out

ASSUME AllowedAssumption == Allowed \subseteq Path
ASSUME SyncMayFailAssumption == SyncMayFail \in BOOLEAN

VARIABLES
    refused,  \* the invocations turned down before the store was called
    synced,   \* which CRG call of each invocation is next
    aliases,  \* the registry of CRG: its aliases with their paths
    built     \* the paths CRG has indexed

crgVars == <<synced, aliases, built>>
cliVars == <<vars, refused, crgVars>>

CliTypeOK ==
    /\ TypeOK
    /\ refused \subseteq Caller
    /\ synced \in [Caller -> {"no", "build", "done"}]
    /\ aliases \subseteq Entry
    /\ built \subseteq Path

CliInit ==
    /\ Init
    /\ refused = {}
    /\ synced = [c \in Caller |-> "no"]
    /\ aliases = {}
    /\ built = {}

\* Mutant: only register checks the path.
PathAllowed_Register(o) ==
    o.kind = "register" => o.path \in Allowed

\* _check_path_allowed, of cmd_register and of an update that has a path.
PathAllowed(o) ==
    o.kind \in {"register", "update"} /\ o.path # None => o.path \in Allowed

Refuse(c, o) ==
    /\ pc[c] = "idle" /\ c \notin refused /\ ~PathAllowed(o)
    /\ refused' = refused \cup {c}
    /\ UNCHANGED <<vars, crgVars>>

Invoke(c, o) ==
    /\ c \notin refused /\ PathAllowed(o)
    /\ Begin(c, o)
    /\ UNCHANGED <<refused, crgVars>>

InStore(c) == (Proceed(c) \/ Fail(c)) /\ UNCHANGED <<refused, crgVars>>

Returned(c, k) == pc[c] = "returned" /\ answer[c] = "ok" /\ call[c].kind = k

\* The aliases after `register PATH --alias NAME` or `unregister NAME`.
AliasesAfter(c) ==
    {e \in aliases : e.name # call[c].name}
        \cup (IF call[c].kind = "register"
              THEN {[name |-> call[c].name, path |-> call[c].path]} ELSE {})

\* One CRG call: it works, or it is missing, exits non-zero, times out or is
\* killed.  A failure is only reported.
Invokes(v, w) ==
    \/ w' = v
    \/ SyncMayFail /\ UNCHANGED w

SyncRegister(c) ==
    /\ Returned(c, "register") /\ synced[c] = "no"
    /\ Invokes(AliasesAfter(c), aliases)
    /\ synced' = [synced EXCEPT ![c] = "build"]
    /\ UNCHANGED <<vars, refused, built>>

\* `code-review-graph build --repo PATH`, whether or not register worked.
SyncBuild(c) ==
    /\ Returned(c, "register") /\ synced[c] = "build"
    /\ Invokes(built \cup {call[c].path}, built)
    /\ synced' = [synced EXCEPT ![c] = "done"]
    /\ UNCHANGED <<vars, refused, aliases>>

SyncUnregister(c) ==
    /\ Returned(c, "delete") /\ synced[c] = "no"
    /\ Invokes(AliasesAfter(c), aliases)
    /\ synced' = [synced EXCEPT ![c] = "done"]
    /\ UNCHANGED <<vars, refused, built>>

CliStep(c) ==
    InStore(c) \/ SyncRegister(c) \/ SyncBuild(c) \/ SyncUnregister(c)

CliNext ==
    \E c \in Caller :
        \/ \E o \in Calls : Refuse(c, o) \/ Invoke(c, o)
        \/ CliStep(c)

CliSpec == CliInit /\ [][CliNext]_cliVars

\* The kernel grants a free flock to some waiter, and a process that can run
\* runs; that one dies, meets an OSError or has CRG fail is never certain.
\* No caller waits for ever: each other caller holds the lock at most once.
CliFairness ==
    \A c \in Caller :
        /\ WF_cliVars(Proceed(c) /\ UNCHANGED <<refused, crgVars>>)
        /\ WF_cliVars(SyncRegister(c) \/ SyncBuild(c) \/ SyncUnregister(c))

FairCliSpec == CliSpec /\ CliFairness

-----------------------------------------------------------------------------
(* Properties.                                                             *)

\* Nothing outside the allowed roots is ever registered or indexed, by
\* whatever sequence of registers and patches (cli.py:46-50).
OnlyAllowedRoots ==
    /\ file # Malformed => \A e \in file : e.path \in Allowed
    /\ \A e \in aliases : e.path \in Allowed
    /\ built \subseteq Allowed

\* An invocation that got as far as the store comes back, although others
\* may die holding the lock.
InvocationsReturn ==
    \A c \in Caller : pc[c] # "idle" ~> pc[c] \in {"returned", "dead"}

-----------------------------------------------------------------------------
(* What a docstring says and the code does not do.                         *)

Quiet ==
    \A c \in Caller :
        \/ pc[c] = "idle"
        \/ pc[c] = "returned" /\ (answer[c] = "ok" => synced[c] = "done")

\* "so the upstream code-review-graph multi-repo registry ... stays in sync"
\* (crg_sync.py:3-5): when every invocation has returned, and CRG never
\* failed, the aliases of CRG are the entries of the registry.
CrgInSync == Quiet /\ file # Malformed => aliases = file
============================================================================
