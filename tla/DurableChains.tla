--------------------------- MODULE DurableChains ----------------------------
(***************************************************************************)
(* What a durable session store promises: at any time a session has at     *)
(* most one chain segment, a segment grows one receipt at a time, each on  *)
(* the head of the one before, and a segment that was dropped, or was ever *)
(* used, is never begun again.                                             *)
(***************************************************************************)
EXTENDS Naturals

CONSTANTS Owners, Segments, Hashes, None, Genesis

VARIABLES
    chain,      \* the chain of each session: None, or its segment and head
    used        \* the segments that ever held a receipt, with their session

dcVars == <<chain, used>>

DCInit ==
    /\ chain = [s \in Owners |-> None]
    /\ used = {}

Begin(s) ==
    \E g \in Segments, h \in Hashes :
        /\ <<s, g>> \notin used
        /\ chain' = [chain EXCEPT ![s] = [seg |-> g, seq |-> 1, head |-> h,
                                          tail |-> Genesis]]
        /\ used' = used \cup {<<s, g>>}

Extend(s) ==
    /\ chain[s] # None
    /\ \E h \in Hashes :
           chain' = [chain EXCEPT ![s] =
                        [seg |-> chain[s].seg, seq |-> chain[s].seq + 1,
                         head |-> h, tail |-> chain[s].head]]
    /\ UNCHANGED used

Drop(s) ==
    /\ chain' = [chain EXCEPT ![s] = None]
    /\ UNCHANGED used

DCNext == \E s \in Owners : Begin(s) \/ Extend(s) \/ Drop(s)

DCSpec == DCInit /\ [][DCNext]_dcVars
=============================================================================
