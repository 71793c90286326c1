------------------------------ MODULE MCStores ------------------------------
(***************************************************************************)
(* The processes around the gate that live by a file, for TLC.  A          *)
(* behaviour takes one instance: the grant signer (the constants of the    *)
(* cfg), the MCP proxy with two sessions and one approver (Sharing), with  *)
(* appends that leave a receipt they did not return (Tearing), with an     *)
(* approver outside the keyring (Outsider) or with two approvers whose     *)
(* runs of the CLI overlap (Racing), the file-backed session store (Files) *)
(* or the lock of its directory (Lock).                                    *)
(***************************************************************************)
EXTENDS GrantSidecar, TLC

CONSTANTS
    First, Second, Pay, Echo, Wipe, Idle,
    Approver, Stranger, Pair,
    Procs

VARIABLES
    part,                                                       \* the instance that runs
    store, inst, sect, tickets, refused, cli, log, ran, minted, \* McpProxy
    mem, disk, spoilt, open, poisoned, callers, prepared, opens, lines,
    file, pc, read, mine, alive, attempt, nonces, crashes, raced

Sharing ==
    INSTANCE McpProxy WITH
        Sessions <- {First, Second}, Calls <- {Pay, Echo}, Held <- {Pay}, Refused <- {},
        Approvers <- {Approver}, Trusted <- {Approver},
        MaxReceipts <- 4, MaxRestarts <- 1, MaxScraps <- 0, MaxSessions <- 1, NoReceipt <- 0

Tearing ==
    INSTANCE McpProxy WITH
        Sessions <- {First, Second}, Calls <- {Pay, Echo}, Held <- {Pay}, Refused <- {},
        Approvers <- {Approver}, Trusted <- {Approver},
        MaxReceipts <- 3, MaxRestarts <- 1, MaxScraps <- 2, MaxSessions <- 1, NoReceipt <- 0

Outsider ==
    INSTANCE McpProxy WITH
        Sessions <- {First}, Calls <- {Pay, Wipe}, Held <- {Pay}, Refused <- {Wipe},
        Approvers <- {Approver, Stranger}, Trusted <- {Approver},
        MaxReceipts <- 4, MaxRestarts <- 1, MaxScraps <- 0, MaxSessions <- 1, NoReceipt <- 0

Racing ==
    INSTANCE McpProxy WITH
        Sessions <- {First}, Calls <- {Pay}, Held <- {Pay}, Refused <- {},
        Approvers <- Pair, Trusted <- Pair,
        MaxReceipts <- 5, MaxRestarts <- 0, MaxScraps <- 0, MaxSessions <- 1, NoReceipt <- 0

Files ==
    INSTANCE FileSessionStore WITH
        Sessions <- {First, Second}, MaxSessions <- 1, MaxReceipts <- 4, MaxBoots <- 3,
        NoReceipt <- 0, torn <- spoilt, up <- open, minted <- prepared, boots <- opens

Lock ==
    INSTANCE SessionDirLock WITH
        MaxNonce <- 3, MaxCrashes <- 2, up <- alive

proxyVars == <<store, inst, sect, tickets, refused, cli, log, ran, minted>>
fileVars == <<mem, disk, spoilt, open, poisoned, callers, prepared, opens, lines>>
lockVars == <<file, pc, read, mine, alive, attempt, nonces, crashes, raced>>
mcVars == <<part, vars, proxyVars, fileVars, lockVars>>

MCInit ==
    /\ part \in {"signer", "sharing", "tearing", "outsider", "racing", "files", "lock"}
    /\ Init
    /\ CASE part = "tearing" -> Tearing!Init
         [] part = "outsider" -> Outsider!Init
         [] part = "racing" -> Racing!Init
         [] OTHER -> Sharing!Init
    /\ Files!Init
    /\ Lock!Init

Storing ==
    \/ part = "signer" /\ Next /\ UNCHANGED <<proxyVars, fileVars, lockVars>>
    \/ part = "sharing" /\ Sharing!Next /\ UNCHANGED <<vars, fileVars, lockVars>>
    \/ part = "tearing" /\ Tearing!Next /\ UNCHANGED <<vars, fileVars, lockVars>>
    \/ part = "outsider" /\ Outsider!Next /\ UNCHANGED <<vars, fileVars, lockVars>>
    \/ part = "racing" /\ Racing!Next /\ UNCHANGED <<vars, fileVars, lockVars>>
    \/ part = "files" /\ Files!Next /\ UNCHANGED <<vars, proxyVars, lockVars>>
    \/ part = "lock" /\ Lock!Next /\ UNCHANGED <<vars, proxyVars, fileVars>>

MCNext == Storing /\ UNCHANGED part

MCSpec == MCInit /\ [][MCNext]_mcVars

Symmetry == Permutations(Pair) \cup Permutations({First, Second})

-----------------------------------------------------------------------------
\* The properties of the modules, of the instance that runs.

\* The receipt log verifies, chain by chain, but for the chains a failed
\* append has spoilt (onReceipt, commitSessionReceipt).
LogVerifies ==
    CASE part = "sharing" -> Sharing!LogVerifies
      [] part = "tearing" -> Tearing!LogVerifies
      [] OTHER -> TRUE

\* A held call is forwarded on its own hold and approval, and one hold at
\* most once (handleCallTool, consumeApprovalTicket, adoptApprovedReceipt).
HeldRunsOnce ==
    CASE part = "sharing" -> Sharing!HeldRunsApproved
      [] part = "tearing" -> Tearing!HeldRunsApproved
      [] part = "outsider" -> Outsider!HeldRunsApproved /\ Outsider!OncePerHold
      [] part = "racing" -> Racing!HeldRunsApproved /\ Racing!OncePerHold
      [] OTHER -> TRUE

\* A restart resumes every chain the store still extends (advance, reloadAll).
RestartResumes == part = "files" => Files!RestartResumes

\* The files keep the promise of DurableChains (createFileSessionStore).
ImplementsDurableChains ==
    /\ Files!Chains!DCInit
    /\ [][part = "files" => [Files!Chains!DCNext]_(Files!Chains!dcVars)]_mcVars

\* One process writes to a session directory, under its own lock
\* (acquireLock, releaseLock).
OneWriter == part = "lock" => Lock!OneWriter
=============================================================================
