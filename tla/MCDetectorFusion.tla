-------------------------- MODULE MCDetectorFusion --------------------------
(***************************************************************************)
(* Two requests and the start-up event; a classifier, an embedding head    *)
(* and a third detector, which cannot be loaded or has other labels.  The  *)
(* policy has a floor of one or two detectors and an upgrade tier,         *)
(* well-formed or not.  Weights are verified in every world; in some the   *)
(* classifier's are not the ones in the manifest.                          *)
(***************************************************************************)
EXTENDS DetectorFusion, TLC

CONSTANTS t1, t2, label, head, extra

Kinds(third) == (label :> "transformer") @@ (head :> "head") @@ (extra :> third)

Tier(features, valid) == [features |-> features, valid |-> valid]
MCArtifacts == {<<Tier({label, head, extra}, TRUE), Tier({label, head}, TRUE)>>,
                <<Tier({label, head}, FALSE), Tier({label}, TRUE)>>}

World(parallel, startup, third, broken, mismatched, tampered) ==
    [parallel |-> parallel, startup |-> startup, kind |-> Kinds(third), broken |-> broken,
     mismatched |-> mismatched, tampered |-> tampered]

MCWorlds == {World(TRUE, TRUE, "guard", {extra}, {}, {}), World(TRUE, FALSE, "guard", {extra}, {}, {}),
             World(TRUE, FALSE, "nemo", {}, {label}, {}), World(TRUE, TRUE, "guard", {}, {}, {}),
             World(TRUE, FALSE, "guard", {extra}, {}, {label}), World(FALSE, FALSE, "nemo", {extra}, {}, {})}

\* The weights of one detector are not the ones in the manifest.
MCTampered == {World(TRUE, TRUE, "guard", {extra}, {}, {label})}
=============================================================================
