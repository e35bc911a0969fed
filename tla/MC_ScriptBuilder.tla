-------------------------- MODULE MC_ScriptBuilder --------------------------
(***************************************************************************)
(* Memos at the boundaries memoToScript's arithmetic has: the one-byte     *)
(* push (below 76), OP_PUSHDATA1 (76 .. 255) and the one-byte length      *)
(* prefix (a script of at most 256 bytes); characters of one, two, three  *)
(* and four UTF-8 bytes; signatures around the same push boundaries with  *)
(* compressed and uncompressed keys; decoded addresses of 21, 22 and 23   *)
(* bytes.                                                                  *)
(***************************************************************************)
EXTENDS ScriptBuilder

\* "a", "é", "€" and an emoji (a surrogate pair)
Ascii == [units |-> 1, utf8 |-> <<97>>]
Latin == [units |-> 1, utf8 |-> <<195, 169>>]
Euro  == [units |-> 1, utf8 |-> <<226, 130, 172>>]
Emoji == [units |-> 2, utf8 |-> <<240, 159, 152, 128>>]

Rep(c, n) == <<[char |-> c, count |-> n]>>
Bytes(b, n) == [i \in 1 .. n |-> b]

\* past the limit too: 253 .. 255 wrap the length byte, 256 takes OP_PUSHDATA2
MCAsciiMemos == {Rep(Ascii, n) : n \in (0 .. 3) \cup (70 .. 80) \cup (240 .. 256) \cup {300}}
MCUtf8Memos ==
    {Rep(Latin, 1), Rep(Euro, 1), Rep(Emoji, 1), Rep(Latin, 40),
     Rep(Ascii, 3) \o Rep(Euro, 2), Rep(Euro, 80), Rep(Euro, 84),
     Rep(Latin, 126), Rep(Latin, 127), Rep(Emoji, 38)}
MCMemos == MCAsciiMemos \cup MCUtf8Memos

\* DER signatures are 8 .. 73 bytes; a caller may pass any Uint8Array
MCSignatures == {Bytes(48, n) : n \in {8} \cup (60 .. 80) \cup (250 .. 258)}
MCPubkeys == {<<2>> \o Bytes(7, 32), <<4>> \o Bytes(7, 64)}

\* A prefix of 2 bytes and a 20-byte hash; and 21 and 23 bytes decoded
MCDecodedAddresses ==
    {<<28, 184>> \o Bytes(9, 20), <<0>> \o Bytes(9, 20), <<28, 184>> \o Bytes(9, 21)}
=============================================================================
