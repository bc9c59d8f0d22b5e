----------------------------- MODULE MCPrefixTier -----------------------------
(* Any snapshot of at most MAX_TOKENS tokens; prompts of one or two tokens.   *)
EXTENDS PrefixTier, TLC

TokenSeqs == UNION {[1..n -> Vocabulary] : n \in 1..MAX_TOKENS}

Lists(n) == {f \in [1..n -> PageId] : \A i, j \in 1..n : f[i] = f[j] => i = j}

MCMeta ==
    UNION {{[kind |-> n, tokens |-> x, pages |-> f, parts |-> 1] :
               n \in Kind, f \in Lists((Len(x) + PAGE_TOKENS - 1) \div PAGE_TOKENS)} :
           x \in TokenSeqs}

OneToken == {1}
TwoTokens == {1, 2}

ShortPrompt == {<<1>>}
TwoPrompts == {<<1>>, <<1, 1>>}

DeviceSymmetry == Permutations(Slot)
HostSymmetry == Permutations(Slab) \cup Permutations(Slot)

=============================================================================
