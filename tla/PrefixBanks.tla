---------------------------- MODULE PrefixBanks -----------------------------
(* What the prefix banks promise their users: two bounded lists of keys,     *)
(* each ordered by access, and lookups that find the entry which saves most. *)

EXTENDS Naturals, Sequences

LOCAL INSTANCE SequencesExt

CONSTANTS
    Key,        \* token sequences that may be inserted
    Query,      \* token sequences that may be looked up
    LIMIT,      \* entries of a bank
    REPLAY      \* tokens computed again behind a partial match

Kind == {"prompt", "turn"}

VARIABLES
    bank,       \* bank[k]: its keys, the least recently used first
    call,       \* the last call and its arguments
    answer      \* the entry it returned, and how much of it matched

bankVars == <<bank, call, answer>>

Nothing == [kind |-> "none"]
Entry(k, key, common) == [kind |-> k, key |-> key, common |-> common]

Common(a, b) ==
    CHOOSE n \in 0..Len(a) :
        /\ n <= Len(b)
        /\ \A i \in 1..n : a[i] = b[i]
        /\ n < Len(a) /\ n < Len(b) => a[n + 1] # b[n + 1]

\* Tokens a request does not compute when it starts from `key`: all of the key
\* when it is a prefix, else an even number of the common ones less the replay.
Skipped(key, tokens) ==
    LET n == Common(key, tokens) IN
    IF n = Len(key) THEN n
    ELSE IF (n \div 2) * 2 > REPLAY THEN (n \div 2) * 2 - REPLAY ELSE 0

Keys(k) == ToSet(bank[k])
Used(k, key) == SelectSeq(bank[k], LAMBDA x : x # key) \o <<key>>

Init ==
    /\ bank = [k \in Kind |-> <<>>]
    /\ call = <<>>
    /\ answer = Nothing

\* The bank's oldest entry makes place for a new one.
Insert(k, key) ==
    /\ call' = <<"insert", k, key>>
    /\ LET after == Used(k, key) IN
       /\ bank' = [bank EXCEPT ![k] = IF Len(after) > LIMIT THEN Tail(after) ELSE after]
       /\ answer' = IF Len(after) > LIMIT THEN Entry(k, Head(after), 0) ELSE Nothing

\* The longest entry that is a prefix of the tokens.
Lookup(k, tokens) ==
    /\ call' = <<"lookup", k, tokens>>
    /\ LET hits == {key \in Keys(k) : IsPrefix(key, tokens)} IN
       IF hits = {}
       THEN answer' = Nothing /\ UNCHANGED bank
       ELSE \E key \in hits :
            /\ \A other \in hits : Len(other) <= Len(key)
            /\ bank' = [bank EXCEPT ![k] = Used(k, key)]
            /\ answer' = Entry(k, key, Len(key))

Saves(k, tokens) == {Skipped(key, tokens) : key \in Keys(k)} \union {0}
Most(S) == CHOOSE n \in S : \A m \in S : m <= n

\* An entry that saves most; between the banks a turn wins a tie.
Reuse(tokens) ==
    /\ call' = <<"reuse", tokens>>
    /\ LET best == [k \in Kind |-> Most(Saves(k, tokens))]
           k == IF best["prompt"] > best["turn"] THEN "prompt" ELSE "turn"
       IN
       IF best[k] = 0
       THEN answer' = Nothing /\ UNCHANGED bank
       ELSE \E key \in Keys(k) :
            /\ Skipped(key, tokens) = best[k]
            /\ bank' = [bank EXCEPT ![k] = Used(k, key)]
            /\ answer' = Entry(k, key, Common(key, tokens))

\* The oldest entry that may go, from the prompts if they have one.
Evict(kept) ==
    /\ call' = <<"evict", kept>>
    /\ LET free(k) == SelectSeq(bank[k], LAMBDA key : <<k, key>> \notin kept)
           k == IF free("prompt") # <<>> THEN "prompt" ELSE "turn"
       IN
       IF free(k) = <<>>
       THEN answer' = Nothing /\ UNCHANGED bank
       ELSE /\ bank' = [bank EXCEPT ![k] = SelectSeq(@, LAMBDA key : key # Head(free(k)))]
            /\ answer' = Entry(k, Head(free(k)), 0)

RemoveKey(k, key) ==
    /\ call' = <<"remove", k, key>>
    /\ bank' = [bank EXCEPT ![k] = SelectSeq(@, LAMBDA x : x # key)]
    /\ answer' = IF key \in Keys(k) THEN Entry(k, key, 0) ELSE Nothing

Next ==
    \/ \E k \in Kind, key \in Key : Insert(k, key) \/ RemoveKey(k, key)
    \/ \E k \in Kind, tokens \in Query : Lookup(k, tokens)
    \/ \E tokens \in Query : Reuse(tokens)
    \/ \E kept \in SUBSET UNION {{k} \X Keys(k) : k \in Kind} : Evict(kept)

Spec == Init /\ [][Next]_bankVars
=============================================================================
