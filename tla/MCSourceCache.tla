---------------------------- MODULE MCSourceCache ----------------------------
(* Small instances of SourceCache. *)
EXTENDS SourceCache, TLC

Symmetry == Permutations(Page) \cup Permutations(Slot) \cup Permutations(Lane)
            \cup Permutations(Handle) \cup Permutations(Value)

\* Rows some table or prefix shows, or some transaction has prepared.
Live ==
    UNION ({Shown(prefixes[h].pages, prefixes[h].rows) : h \in LivePrefixes}
           \cup {Shown(pages[s], rows[s]) : s \in Slot}
           \cup {{<<m.destination, i>> : i \in 0..(rows[m.slot] % PAGE_ROWS) - 1} :
                    m \in UNION {plans[l].replacements :
                        l \in {k \in InFlight : plans[k].stage # "reserved"}}}
           \cup {{<<w[2], w[3]>> : w \in Stored(l)} :
                    l \in {k \in InFlight : plans[k].stage = "written"}})

\* The value of an append without rows is nothing.
Work(a) == IF a.new = rows[a.slot] THEN <<a.slot>> ELSE <<a.slot, a.new, a.value>>

Transaction(l) == [plans[l] EXCEPT !.appends = [i \in DOMAIN @ |-> Work(@[i])]]

\* States that differ only in rows nobody will read count once.
View == <<free, references, pages, rows, writing, prefixes, hist,
          [l \in Lane |-> IF l \in InFlight THEN Transaction(l) ELSE NoPlan],
          {<<c, cells[c[1]][c[2]]>> : c \in Live}>>

=============================================================================
