---------------------------- MODULE StreamLemmas ----------------------------
(***************************************************************************)
(* What the two ends of a FIFO stream do, for the proofs about messages.   *)
(***************************************************************************)
EXTENDS Integers, Sequences, TLAPS

\* A message is sent.
LEMMA Appended ==
  ASSUME NEW S, NEW s \in Seq(S), NEW e \in S, NEW t, t = Append(s, e)
  PROVE  /\ t \in Seq(S) /\ Len(t) = Len(s) + 1
         /\ DOMAIN s \subseteq DOMAIN t
         /\ \A i \in DOMAIN s : t[i] = s[i]
         /\ \A i \in DOMAIN t :
              \/ i \in DOMAIN s
              \/ i = Len(s) + 1 /\ t[i] = e /\ \A j \in DOMAIN s : j < i
         /\ Len(t) \in DOMAIN t /\ t[Len(t)] = e
  OBVIOUS

\* A message is received.
LEMMA Taken ==
  ASSUME NEW S, NEW s \in Seq(S), s # <<>>
  PROVE  /\ Head(s) \in S /\ Head(s) = s[1] /\ 1 \in DOMAIN s
         /\ Tail(s) \in Seq(S) /\ Len(Tail(s)) = Len(s) - 1
         /\ \A i \in DOMAIN Tail(s) : i + 1 \in DOMAIN s /\ i + 1 # 1 /\ Tail(s)[i] = s[i + 1]
         /\ \A i \in DOMAIN s : i # 1 => i - 1 \in DOMAIN Tail(s) /\ Tail(s)[i - 1] = s[i]
  OBVIOUS

\* A stream of one message, and of none.
LEMMA Few ==
  ASSUME NEW S, NEW e \in S
  PROVE  /\ <<e>> \in Seq(S) /\ Len(<<e>>) = 1 /\ <<e>>[1] = e /\ DOMAIN <<e>> = {1}
         /\ <<>> \in Seq(S) /\ DOMAIN <<>> = {}
  OBVIOUS

\* Positions can be compared.
LEMMA Positions ==
  ASSUME NEW S, NEW s \in Seq(S)
  PROVE  \A i \in DOMAIN s : i \in Nat /\ i >= 1 /\ i <= Len(s)
  OBVIOUS

=============================================================================
