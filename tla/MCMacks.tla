------------------------------ MODULE MCMacks ------------------------------
(* Every MAC look-up table with sizes that fit it, CMAC with a key it can  *)
(* and one it cannot use, sizes that leave more tags than the table, an    *)
(* unknown table, 20-bit tags; the end of a week whose number is about to  *)
(* outgrow 6, 8 and 12 bits, and an ordinary time.                         *)
EXTENDS TagVerification

With(maclt, key_bits, tag_bits, mac_function) ==
    [maclt |-> maclt, key_bits |-> key_bits, tag_bits |-> tag_bits,
     mac_function |-> mac_function, newest |-> -1]
MCChains ==
    {With(m, 128, 40, "HmacSha256") : m \in {27, 33, 34, 35, 32}}
        \cup {With(m, 160, 40, "HmacSha256") : m \in {31, 36, 37, 38}}
        \cup {With(m, 224, 40, "HmacSha256") : m \in {39, 40, 41}}
        \cup {With(27, 128, 40, "CmacAes"), With(31, 160, 40, "CmacAes"),
              With(27, 128, 32, "HmacSha256"), With(28, 96, 20, "HmacSha256"),
              With(27, 128, 40, "Reserved")}
MCOneChain == {With(33, 128, 40, "HmacSha256")}
MCStarts == {Time(4095, 604770), Time(4096, 0), Time(4100, 345630)}
MCRoot == Time(4095, 0)
=============================================================================
