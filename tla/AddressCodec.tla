---------------------------- MODULE AddressCodec ----------------------------
(***************************************************************************)
(* Transparent addresses and network names, src/chain/zec/ts/src/addr.ts   *)
(* and normalizeNetwork in index.ts.                                       *)
(*                                                                         *)
(* An address string is abstracted to what decoding it yields: whether it  *)
(* is base58 at all, which two leading bytes it carries (the mainnet       *)
(* prefix 0x1cb8 "t1", the testnet prefix 0x1d25 "tm", or any other), and  *)
(* whether its four-byte checksum verifies.  A network argument is         *)
(* abstracted to the spelling it has once lowercased and whether it        *)
(* carries capitals, so that toLowerCase is modelled by what it does.      *)
(***************************************************************************)
EXTENDS Naturals

MainPrefix  == "t1"     \* mainnetPrefix = [0x1c, 0xb8]
TestPrefix  == "tm"     \* testnetPrefix = [0x1d, 0x25]
OtherPrefix == "other"
Prefixes == {MainPrefix, TestPrefix, OtherPrefix}

Addresses ==
    {a \in [prefix : Prefixes, base58 : BOOLEAN, checksum : BOOLEAN] :
        ~a.base58 => (~a.checksum /\ a.prefix = OtherPrefix)}

NetworkNames == {"main", "mainnet", "test", "testnet", "regtest", "other"}
NetworkArgs == [name : NetworkNames, upper : BOOLEAN]

\* String.prototype.toLowerCase on a network argument
ToLower(n) == [n EXCEPT !.upper = FALSE]

\* getNetworkPrefix throws "Unknown network" unless one of these matches
\* exactly (it does not lowercase)
HasNetworkPrefix(n) ==
    ~n.upper /\ n.name \in {"main", "mainnet", "test", "testnet", "regtest"}

\* getNetworkPrefix(network); test and regtest share the testnet prefix
NetworkPrefix(n) == IF n.name \in {"main", "mainnet"} THEN MainPrefix ELSE TestPrefix

(***************************************************************************)
(* isValidAddr(address, network).  The first try decodes with plain bs58,  *)
(* which checks no checksum, and compares the first two bytes with the     *)
(* network's prefix.  Its catch re-runs getNetworkPrefix and bs58check:    *)
(* it is reached only when the prefix lookup threw (and throws again) or   *)
(* the string is not base58 (and bs58check fails on it too), so it always  *)
(* returns false.                                                          *)
(***************************************************************************)
IsValidAddr(a, n) ==
    /\ HasNetworkPrefix(n)
    /\ a.base58
    /\ a.prefix = NetworkPrefix(n)

\* pkToAddr(pk, network): bs58check.encode(prefix ++ ripemd160(sha256(pk)))
PkToAddr(n) == [prefix |-> NetworkPrefix(n), base58 |-> TRUE, checksum |-> TRUE]

\* getPublicKeyHashFromAddress and addressToScript decode with bs58check,
\* which throws unless the checksum verifies
DecodesWithChecksum(a) == a.base58 /\ a.checksum

\* normalizeNetwork(network) in index.ts: lowercases, then maps the aliases
\* to the engine's enumeration or throws "Unknown network"
IsKnownNetwork(n) == ToLower(n).name # "other"

\* Mutant: the lowercased string is passed on without mapping the aliases
NormalizeNetworkLowered(n) == ToLower(n).name

NormalizeNetwork(n) ==
    CASE ToLower(n).name \in {"main", "mainnet"} -> "Main"
      [] ToLower(n).name \in {"test", "testnet"} -> "Test"
      [] ToLower(n).name = "regtest"             -> "Regtest"
=============================================================================
