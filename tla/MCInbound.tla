------------------------------ MODULE MCInbound -----------------------------
(* Small instances of Inbound for TLC.  Webhook requests and worker slots  *)
(* are interchangeable.                                                    *)
EXTENDS Inbound, TLC

Symmetric == Permutations(Hooks) \cup Permutations(Workers)

(* Fewer initial states: the name comes with all messages or with none (a  *)
(* call never carries it), and the firm waits for a document and a payment *)
(* or for neither.                                                         *)
SmallInit ==
    /\ Init
    /\ named \in {{}, Message}
    /\ request = "PENDING" <=> payment = "open"

SmallSpec == SmallInit /\ [][Next]_vars
=============================================================================
