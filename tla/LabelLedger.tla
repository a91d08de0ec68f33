---------------------------- MODULE LabelLedger ----------------------------
(***************************************************************************)
(* What the R16 replay promises about its labels ("immutable multi-date    *)
(* replay worker", "append changed label paths" in r16_service.py): a      *)
(* hypothesis is frozen before it is labelled, and the first terminal      *)
(* label it is given is its last, as long as no two workers replay at one  *)
(* time.                                                                   *)
(***************************************************************************)
CONSTANTS Hypothesis, Verdict, None

VARIABLES frozen, verdict, exclusive

Init ==
  /\ frozen = {}
  /\ verdict = [h \in Hypothesis |-> None]
  /\ exclusive = TRUE

\* One transaction freezes the hypotheses of a date.
Freeze ==
  /\ frozen' \in SUBSET Hypothesis /\ frozen \subseteq frozen'
  /\ UNCHANGED <<verdict, exclusive>>

Settles(h, values) ==
  /\ h \in frozen
  /\ \E v \in values \cap {verdict'[h]} : verdict' = [verdict EXCEPT ![h] = v]
  /\ UNCHANGED <<frozen, exclusive>>

Decide(h) == verdict[h] = None /\ Settles(h, Verdict)

\* A second worker begins while the first is still at work; from then on a
\* label may be replaced.
Overlap == exclusive /\ exclusive' = FALSE /\ UNCHANGED <<frozen, verdict>>

Redecide(h) == ~ exclusive /\ Settles(h, Verdict \cup {None})

Next == Freeze \/ Overlap \/ \E h \in Hypothesis : Decide(h) \/ Redecide(h)

Spec == Init /\ [][Next]_<<frozen, verdict, exclusive>>
=============================================================================
