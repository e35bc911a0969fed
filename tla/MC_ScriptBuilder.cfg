CONSTANTS
    Memos <- MCMemos
    Signatures <- MCSignatures
    Pubkeys <- MCPubkeys
    DecodedAddresses <- MCDecodedAddresses
SPECIFICATION Spec
INVARIANTS MemoScriptFramed SigScriptExact
