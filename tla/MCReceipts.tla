----------------------------- MODULE MCReceipts -----------------------------
(***************************************************************************)
(* The receipts under the offline verifiers, for TLC.  A behaviour takes   *)
(* one instance: two receipts with every fault (Checked), three across     *)
(* tenants (Tenants), signed and dated while keys retire (Dated), anchored *)
(* by three witnesses (Anchored), or anchored on two chains and watched by *)
(* a monitor, at one time (Watched) or over two (Late).                    *)
(***************************************************************************)
EXTENDS Naturals

CONSTANT None

VARIABLES
    part,                                                       \* the instance that runs
    receipts, parent, builtAt, checkpoints, anchors, retiredAt, clock

\* Agent a signs with ka, b with kb; kx is another name for the key of ka.
KeyOf == [kid \in {"ka", "kb", "kx", "w1", "w2", "w3"} |-> IF kid = "kx" THEN "ka" ELSE kid]
Activation == [kid \in DOMAIN KeyOf |-> IF kid = "kb" THEN 1 ELSE None]
Manifest == [agent \in {"a", "b"} |-> IF agent = "a" THEN {"ka"} ELSE {"kb"}]

Input(agent, tenant, chain, kid) ==
    [agent |-> agent, tenant |-> tenant, chain |-> chain, form |-> "ok", note |-> "built", kid |-> kid]
ByA == Input("a", "t1", "c1", "ka")
ByB == Input("b", "t1", "c1", "kb")

Checked ==
    INSTANCE Notary WITH
        Inputs <- {ByA, ByB, [ByA EXCEPT !.kid = "kb"], [ByA EXCEPT !.chain = "c2"],
                   [ByA EXCEPT !.tenant = "t2"]},
        Foreign <- {[ByA EXCEPT !.form = "nonNfc"]},
        Clerks <- {"ka", "kb"}, Witnesses <- {}, Quorum <- 2, Retirable <- {"ka"},
        Producers <- {"ka", "kb"},
        MaxReceipts <- 2, MaxCheckpoints <- 1, MaxAnchors <- 0, MaxTime <- 0, now <- clock

Tenants ==
    INSTANCE Notary WITH
        Inputs <- {ByA, [ByA EXCEPT !.tenant = None], [ByB EXCEPT !.tenant = "t2"]}, Foreign <- {},
        Clerks <- {"kb"}, Witnesses <- {}, Quorum <- 2, Retirable <- {"ka"},
        Producers <- {"ka", "kb"},
        MaxReceipts <- 3, MaxCheckpoints <- 1, MaxAnchors <- 0, MaxTime <- 0, now <- clock

Dated ==
    INSTANCE Notary WITH
        Inputs <- {ByA, ByB}, Foreign <- {},
        Clerks <- {"ka", "kx", "w1"}, Witnesses <- {}, Quorum <- 2, Retirable <- {"ka", "w1"},
        Producers <- {"ka", "kb"},
        MaxReceipts <- 2, MaxCheckpoints <- 1, MaxAnchors <- 0, MaxTime <- 2, now <- clock

Anchored ==
    INSTANCE Notary WITH
        Inputs <- {ByA, ByB}, Foreign <- {},
        Clerks <- {}, Witnesses <- {"w1", "w2", "w3"}, Quorum <- 2, Retirable <- {},
        Producers <- {"ka", "kb"},
        MaxReceipts <- 2, MaxCheckpoints <- 0, MaxAnchors <- 3, MaxTime <- 1, now <- clock

\* Another organisation's names for the witnesses.
Alias == [kid \in {"w1", "w2", "w3"} |-> CASE kid = "w1" -> "x1" [] kid = "w2" -> "x2" [] OTHER -> "x3"]

Watched ==
    INSTANCE Monitor WITH
        Inputs <- {ByA, ByB, [ByA EXCEPT !.chain = "c2"]}, Foreign <- {},
        Clerks <- {}, Witnesses <- {"w1", "w2", "w3"}, Quorum <- 2, Retirable <- {},
        Producers <- {"ka", "kb"}, MaxUnique <- 2,
        MaxReceipts <- 2, MaxCheckpoints <- 0, MaxAnchors <- 3, MaxTime <- 0, now <- clock

Late ==
    INSTANCE Monitor WITH
        Inputs <- {ByA, ByB}, Foreign <- {},
        Clerks <- {}, Witnesses <- {"w1", "w2", "w3"}, Quorum <- 2, Retirable <- {},
        Producers <- {"ka", "kb"}, MaxUnique <- 2,
        MaxReceipts <- 2, MaxCheckpoints <- 0, MaxAnchors <- 2, MaxTime <- 1, now <- clock

mcVars == <<part, receipts, parent, builtAt, checkpoints, anchors, retiredAt, clock>>

MCInit ==
    /\ part \in {"checked", "tenants", "dated", "anchored", "watched", "late"}
    /\ Checked!Init

MCNext ==
    /\ UNCHANGED part
    /\ \/ part = "checked" /\ Checked!Next
       \/ part = "tenants" /\ Tenants!Next
       \/ part = "dated" /\ Dated!Next
       \/ part = "anchored" /\ Anchored!Next
       \/ part = "watched" /\ Watched!Next
       \/ part = "late" /\ Late!Next

MCSpec == MCInit /\ [][MCNext]_mcVars

-----------------------------------------------------------------------------
\* The properties of the modules, of the instance that runs.

\* The chain verifier accepts what it should and nothing else (verifyChain).
VerdictIsTrue ==
    CASE part = "checked" -> Checked!VerdictIsTrue
      [] part = "tenants" -> Tenants!VerdictIsTrue
      [] OTHER -> TRUE

\* Historical attribution is true of when and by which key a receipt was
\* built (verifyHistoricalChain).
AttributionIsEarned == part = "dated" => Dated!AttributionIsEarned

\* A retirement takes back no attribution (verifyHistoricalChain).
HistoryOutlivesKeys ==
    [][part = "dated" => \A r \in receipts, cp \in checkpoints :
                            Dated!AttributionSurvives(Dated!Branch(r), cp)]_mcVars

\* The witness rule tells the truth about the anchors (verifyCompleteness).
AnswerIsTrue == part = "anchored" => Anchored!AnswerIsTrue

\* The monitor accuses truly, its findings convince every recipient that reads
\* so many branches and nothing else does, and a corroborated head is one
\* (scanForEquivocation, verifyEquivocationProof, checkpointCorroboration).
MonitorIsTrue ==
    CASE part = "watched" -> Watched!MonitorIsTrue
      [] part = "late" -> Late!MonitorIsTrue
      [] OTHER -> TRUE
=============================================================================
