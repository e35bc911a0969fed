---------------------------- MODULE ScriptBuilder ----------------------------
(***************************************************************************)
(* The script functions of src/chain/zec/ts/src/script.ts, over Node       *)
(* Buffers.  A Buffer is a function from 0 .. size-1 to bytes, indexed as  *)
(* the code indexes it, with the semantics the code relies on:             *)
(* Buffer.alloc fills with zeros, buf[i] = v stores v modulo 256 and is    *)
(* ignored outside the buffer, src.copy(target, start) copies only what    *)
(* fits, and subarray clamps its end to the size.                          *)
(*                                                                         *)
(* A memo is a sequence of runs of one character repeated, each character *)
(* with its UTF-16 code units (what memo.length counts) and its UTF-8      *)
(* bytes (what Buffer.from(memo) writes).  A caller calls                  *)
(* createMemoScript (index.ts), the exported writeSigScript or             *)
(* createPayToAddressScript; script is what the last call returned.        *)
(***************************************************************************)
EXTENDS Naturals, Sequences, FiniteSets, SequencesExt

CONSTANTS
    Memos,          \* memo arguments of createMemoScript
    Signatures,     \* signature arguments of writeSigScript (byte sequences)
    Pubkeys,        \* pk arguments of writeSigScript (byte sequences)
    DecodedAddresses \* bs58check.decode(address) of the addresses tried

OP_RETURN == 106        \* 0x6a
OP_DUP == 118           \* 0x76
OP_HASH160 == 169       \* 0xa9
OP_EQUALVERIFY == 136   \* 0x88
OP_CHECKSIG == 172      \* 0xac
SIGHASH_ALL == 1

Byte == 0 .. 255

-----------------------------------------------------------------------------
(* Buffers                                                                 *)

Size(b) == Cardinality(DOMAIN b)

\* Buffer.alloc(n)
Alloc(n) == [j \in 0 .. n - 1 |-> 0]

\* Buffer.from(bytes), and a Buffer's bytes in order
FromSeq(s) == [j \in 0 .. Len(s) - 1 |-> s[j + 1]]
ToSeq(b) == [i \in 1 .. Size(b) |-> b[i - 1]]

\* buf[i] = v on a Uint8Array
SetByte(b, i, v) == IF i < Size(b) THEN [b EXCEPT ![i] = v % 256] ELSE b

\* src.copy(target, start, srcStart, srcEnd): min(srcEnd - srcStart,
\* size(target) - start) bytes, none when start is past the end
CopyRange(target, src, start, srcStart, srcEnd) ==
    LET end == IF srcEnd < Size(src) THEN srcEnd ELSE Size(src)
        k   == IF end - srcStart < Size(target) - start
               THEN end - srcStart ELSE Size(target) - start
    IN  [j \in DOMAIN target |->
            IF start <= j /\ j < start + k THEN src[srcStart + j - start]
            ELSE target[j]]

Copy(target, src, start) == CopyRange(target, src, start, 0, Size(src))

\* buf.subarray(0, e)
Prefix(b, e) == [j \in 0 .. (IF e < Size(b) THEN e ELSE Size(b)) - 1 |-> b[j]]

(***************************************************************************)
(* pushData(n) of ./writer, the script push-length prefix: n itself below  *)
(* OP_PUSHDATA1 (76), then OP_PUSHDATA1, 2 or 4 with a little-endian       *)
(* length.                                                                 *)
(***************************************************************************)
pushData(n) ==
    IF n < 76 THEN <<n>>
    ELSE IF n <= 255 THEN <<76, n>>
    ELSE IF n <= 65535 THEN <<77, n % 256, n \div 256>>
    ELSE <<78, n % 256, (n \div 256) % 256, (n \div 65536) % 256, n \div 16777216>>

\* memo.length (UTF-16 code units) and Buffer.from(memo) (UTF-8)
Length(m) == SumFunction([i \in DOMAIN m |-> m[i].count * m[i].char.units])
Utf8(m) ==
    FlattenSeq([i \in DOMAIN m |->
        LET u == m[i].char.utf8
        IN  [j \in 1 .. m[i].count * Len(u) |-> u[((j - 1) % Len(u)) + 1]]])

-----------------------------------------------------------------------------
\* Mutant: three bytes reserved besides the memo instead of four
MemoToScriptAllocByThree(memo) ==
    LET n    == Length(memo)
        pml  == pushData(n)
        opr  == Copy(SetByte(Alloc(n + 3), 1, OP_RETURN), FromSeq(pml), 2)
        opr2 == Copy(opr, FromSeq(Utf8(memo)), 2 + Len(pml))
    IN  Prefix(SetByte(opr2, 0, 2 + Len(pml) + n - 1), 2 + Len(pml) + n)

\* memoToScript(memo): the buffer and both offsets are sized by memo.length
MemoToScript(memo) ==
    LET n    == Length(memo)
        pml  == pushData(n)
        opr  == Copy(SetByte(Alloc(n + 4), 1, OP_RETURN), FromSeq(pml), 2)
        opr2 == Copy(opr, FromSeq(Utf8(memo)), 2 + Len(pml))
    IN  Prefix(SetByte(opr2, 0, 2 + Len(pml) + n - 1), 2 + Len(pml) + n)

\* Mutant: the buffer sized without the two push prefixes' slack
WriteSigScriptTight(signature, pk) ==
    LET psl  == pushData(Len(signature) + 1)
        pkl  == pushData(Len(pk))
        o1   == Len(psl) + Len(signature)
        o2   == o1 + 1 + Len(pkl)
        buf  == Copy(Copy(Alloc(3 + Len(signature) + Len(pk)), FromSeq(psl), 0),
                     FromSeq(signature), Len(psl))
        buf2 == Copy(SetByte(buf, o1, SIGHASH_ALL), FromSeq(pkl), o1 + 1)
    IN  Prefix(Copy(buf2, FromSeq(pk), o2), o2 + Len(pk))

\* writeSigScript(signature, pk): push(signature ++ 0x01) ++ push(pk)
WriteSigScript(signature, pk) ==
    LET psl  == pushData(Len(signature) + 1)
        pkl  == pushData(Len(pk))
        o1   == Len(psl) + Len(signature)
        o2   == o1 + 1 + Len(pkl)
        buf  == Copy(Copy(Alloc(5 + Len(signature) + Len(pk)), FromSeq(psl), 0),
                     FromSeq(signature), Len(psl))
        buf2 == Copy(SetByte(buf, o1, SIGHASH_ALL), FromSeq(pkl), o1 + 1)
    IN  Prefix(Copy(buf2, FromSeq(pk), o2), o2 + Len(pk))

\* addressToScript(address): bytes 2 .. 21 of the decoded address as the
\* 20-byte hash, in the fixed 25-byte P2PKH pattern
AddressToScript(addrb) ==
    LET pkh == CopyRange(Alloc(20), FromSeq(addrb), 0, 2, 22)
        s   == FromSeq(<<OP_DUP, OP_HASH160, 20>> \o ToSeq(pkh)
                       \o <<OP_EQUALVERIFY, OP_CHECKSIG>>)
    IN  s

-----------------------------------------------------------------------------
VARIABLES call, script
vars == <<call, script>>

Init ==
    /\ call = [fn |-> "none"]
    /\ script = Alloc(0)

\* createMemoScript(memo), index.ts, returns memoToScript(memo)
CreateMemoScript(m) ==
    /\ call' = [fn |-> "memo", memo |-> m]
    /\ script' = MemoToScript(m)

CallWriteSigScript(s, p) ==
    /\ call' = [fn |-> "sig", sig |-> s, pk |-> p]
    /\ script' = WriteSigScript(s, p)

\* createPayToAddressScript(address), index.ts; a checksum failure throws in
\* bs58check.decode, so only decodable addresses are tried
CreatePayToAddressScript(a) ==
    /\ call' = [fn |-> "address", decoded |-> a]
    /\ script' = AddressToScript(a)

Next ==
    \/ \E m \in Memos : CreateMemoScript(m)
    \/ \E s \in Signatures, p \in Pubkeys : CallWriteSigScript(s, p)
    \/ \E a \in DecodedAddresses : CreatePayToAddressScript(a)

\* Nothing is ever left to do but another call
Spec == Init /\ [][Next]_vars

-----------------------------------------------------------------------------
\* The memos whose bytes fit one push and the one-byte length (spec 4.2)
WithinLimit(m) == 2 + Len(pushData(Len(Utf8(m)))) + Len(Utf8(m)) <= 256

(***************************************************************************)
(* Spec 4.2: the memo script is framed: its first byte is the length of    *)
(* the rest, then OP_RETURN, then a push whose prefix announces exactly    *)
(* the bytes that follow it.  memoToScript sizes its buffer by hand        *)
(* (memo.length + 4) for a prefix of up to two bytes, and its length byte  *)
(* is a Uint8 store.                                                       *)
(***************************************************************************)
MemoScriptFramed ==
    (call.fn = "memo" /\ WithinLimit(call.memo)) =>
        LET s == ToSeq(script)
        IN  /\ Len(s) >= 3
            /\ s[1] = Len(s) - 1
            /\ s[2] = OP_RETURN
            /\ \E k \in 1 .. 5 : SubSeq(s, 3, 2 + k) = pushData(Len(s) - 2 - k)

(***************************************************************************)
(* Spec 4.2: memoScript(memoBytes) pushes the memo's bytes.  The script of *)
(* a memo within the limit carries its whole UTF-8 encoding, announced by  *)
(* its byte length.  memoToScript counts memo.length, UTF-16 code units,  *)
(* and the copy into the buffer silently drops the rest.                  *)
(***************************************************************************)
MemoScriptCarriesMemo ==
    (call.fn = "memo" /\ WithinLimit(call.memo)) =>
        ToSeq(script) =
            LET body == <<OP_RETURN>> \o pushData(Len(Utf8(call.memo)))
                        \o Utf8(call.memo)
            IN  <<Len(body)>> \o body

(***************************************************************************)
(* Spec 4.2: signatureScript(sig, pubkey) is push(sig ++ sighash type)     *)
(* ++ push(pubkey), for every signature length a push can carry and the    *)
(* 33- and 65-byte keys.  writeSigScript reserves 5 bytes for both         *)
(* prefixes and the sighash byte.                                          *)
(***************************************************************************)
SigScriptExact ==
    call.fn = "sig" =>
        ToSeq(script) = pushData(Len(call.sig) + 1) \o call.sig \o <<SIGHASH_ALL>>
                        \o pushData(Len(call.pk)) \o call.pk
=============================================================================
