------------------------------ MODULE Checksum ------------------------------
(***************************************************************************)
(* compute_checksum of dumbo/src/pdu/mod.rs, the checksum of TCP segments  *)
(* and UDP datagrams, loop by loop, for any words.  In the code the        *)
(* constants are 2^16, 2^32, the greatest length of a segment and the      *)
(* protocol number.                                                        *)
(***************************************************************************)
EXTENDS Integers

CONSTANTS Word, Limit, MaxLen, Proto

\* The accumulator has room for the halves of two addresses, the protocol, the
\* length and as many words as a segment has.
ASSUME ChecksumAssumption ==
    /\ Word \in Nat /\ Word > 1 /\ MaxLen \in Nat /\ Proto \in Nat /\ Limit \in Nat
    /\ Proto + MaxLen + (4 * Word) + (((MaxLen \div 2) + 1) * Word) < Limit

VARIABLES phase, udp, length, words, sum,
          total            \* ghost: the sum of everything that was added
csvars == <<phase, udp, length, words, sum, total>>

\* The sum of four 16-bit halves of addresses, the protocol and the length.
ChecksumInit ==
    /\ length \in 0..MaxLen /\ udp \in BOOLEAN
    /\ \E halves \in 0..(4 * (Word - 1)) : sum = halves + Proto + length
    /\ total = sum /\ words = 0 /\ phase = "words"

AddWord ==
    /\ phase = "words" /\ words < length \div 2
    /\ \E w \in 0..(Word - 1) : sum' = sum + w /\ total' = total + w
    /\ words' = words + 1 /\ UNCHANGED <<phase, udp, length>>

odd_byte(b) == b
AddLast ==
    /\ phase = "words" /\ words = length \div 2
    /\ IF length % 2 = 0 THEN UNCHANGED <<sum, total>>
       ELSE \E w \in 0..(Word - 1) : sum' = sum + odd_byte(w) /\ total' = total + w
    /\ phase' = "fold" /\ UNCHANGED <<udp, length, words>>

\* Mutant: the carry is not added back.
folded_truncated(s) == s % Word

folded(s) == (s % Word) + (s \div Word)
Fold ==
    /\ phase = "fold" /\ sum >= Word
    /\ sum' = folded(sum) /\ UNCHANGED <<phase, udp, length, words, total>>

csum(s) == IF udp /\ s = Word - 1 THEN Word - 1 ELSE (Word - 1) - s
Finish ==
    /\ phase = "fold" /\ sum < Word
    /\ sum' = csum(sum) /\ phase' = "done" /\ UNCHANGED <<udp, length, words, total>>

ChecksumNext == AddWord \/ AddLast \/ Fold \/ Finish
ChecksumSpec == ChecksumInit /\ [][ChecksumNext]_csvars

-----------------------------------------------------------------------------
(* Properties.                                                             *)

\* Types of the words summed and the accumulator.
ChecksumTypeOK ==
    /\ phase \in {"words", "fold", "done"} /\ udp \in BOOLEAN /\ length \in 0..MaxLen
    /\ words \in 0..(length \div 2) /\ sum \in Nat /\ total \in Nat

\* "Is u32 enough to prevent overflow for the code in this function? I think so,
\* but it would be nice to double-check": the sum never reaches 2^32.
NoOverflow == sum < Limit

ones_complement_sum(n) == IF n = 0 THEN 0 ELSE ((n - 1) % (Word - 1)) + 1

\* What the function computes is the checksum of the data: the one's complement
\* sum of the data and of the checksum is all ones, so that the receiver, who
\* sums both, gets zero; and a UDP checksum is never zero, which would mean that
\* there is none.
Verifies ==
    phase = "done" => /\ ones_complement_sum(total + sum) = Word - 1
                      /\ udp => sum # 0

\* compute_checksum computes a checksum that the receiver accepts, without
\* overflowing on the way.
ChecksumIsRight == NoOverflow /\ Verifies
=============================================================================
