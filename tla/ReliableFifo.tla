---------------------------- MODULE ReliableFifo ----------------------------
(***************************************************************************)
(* What a session promises in either direction, for a set of lines: on     *)
(* each line everything that goes in comes out in the same order, once,    *)
(* with nothing skipped.                                                   *)
(***************************************************************************)
EXTENDS Naturals, Sequences

CONSTANT Lines

VARIABLES
  sent,  \* sent[l]: everything put into line l so far
  got    \* got[l]: everything taken out of it so far

fvars == <<sent, got>>

FInit == \A l \in Lines : sent[l] = <<>> /\ got[l] = <<>>

Put(l) ==
  /\ Len(sent'[l]) = Len(sent[l]) + 1
  /\ SubSeq(sent'[l], 1, Len(sent[l])) = sent[l]
  /\ got'[l] = got[l]

Take(l) ==
  /\ Len(got[l]) < Len(sent[l])
  /\ got'[l] = Append(got[l], sent[l][Len(got[l]) + 1])
  /\ sent'[l] = sent[l]

Rest(l) == sent'[l] = sent[l] /\ got'[l] = got[l]

FNext == \A l \in Lines : Put(l) \/ Take(l) \/ Rest(l)

FSpec == FInit /\ [][FNext]_fvars
=============================================================================
