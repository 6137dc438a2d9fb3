------------------------------ MODULE AuditLog ------------------------------
(* What the two audit logs have in common: records numbered from 1, which  *)
(* is the genesis record.                                                  *)
EXTENDS Naturals, Sequences

CONSTANTS
    MaxSeq,     \* bound on the sequence numbers that are handed out
    None        \* no document; no log is open; no record is being written

ASSUME MaxSeqAssumption == MaxSeq \in Nat \ {0}

Seqs == 1..MaxSeq
=============================================================================
