------------------------ MODULE MCConsentAndIdleClock ------------------------
(* Two small components for TLC, side by side: a behaviour is one of Consent or one of  *)
(* IdleClock, never both.  Consent has one person on the page and another one next, the *)
(* fewest of which one's answer can be left to the other; the idle clock has two tabs,  *)
(* the fewest that tell each other.  Persons are interchangeable, and so are tabs.      *)
EXTENDS Consent, IdleClock, TLC

VARIABLE part  \* which of the two this behaviour is of

EitherInit == /\ Init /\ ClockInit /\ part \in {"consent", "clock"}
              /\ part = "clock" => saved = [p \in Persons |-> "unknown"]
              /\ part = "consent" => idle = [t \in Tabs |-> NoClock]

EitherNext == \/ part = "consent" /\ Next /\ UNCHANGED <<clockVars, part>>
              \/ part = "clock" /\ ClockNext /\ UNCHANGED <<vars, part>>

EitherSpec == EitherInit /\ [][EitherNext]_<<vars, clockVars, part>>

Symmetry == Permutations(Persons) \cup Permutations(Tabs)
=============================================================================
