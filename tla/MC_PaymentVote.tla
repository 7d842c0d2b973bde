---------------------------- MODULE MC_PaymentVote ----------------------------
(***************************************************************************)
(* PaymentVote for TLC: two vote hashes; two curves, one whose size is not *)
(* a whole number of bytes; signatures whose r or s is short (needs        *)
(* padding) or uses every byte of keyBytes.                               *)
(***************************************************************************)
EXTENDS PaymentVote

MCCurveBits == {9, 16}

MCHashes == {<<1, 2>>, <<0, 7>>}

MCEcdsaSig ==
  [p \in MCCurveBits \X MCHashes |->
     CASE p = <<16, <<1, 2>>>> -> <<1, 65535>>
       [] p = <<16, <<0, 7>>>> -> <<256, 255>>
       [] p = <<9, <<1, 2>>>>  -> <<5, 300>>
       [] OTHER                -> <<511, 1>>]

=============================================================================
