---------------------------- MODULE MCLedgerRace ----------------------------
(***************************************************************************)
(* Ledger for TLC: two transactions on one project, without overdraft,     *)
(* that race each other, period closes or changes of the project's status. *)
(* All of them at once are too many: TLC follows the behaviours whose      *)
(* operations belong to one of the mixes.                                  *)
(***************************************************************************)
EXTENDS MCLedger

\* "top_up" is an adjustment that does not only fund the project first, "periods" are two dates
\* and the closing of periods, "transition" the project's.
Mixes ==
    {{"adjust", "reserve", "release_reservation", "reverse_entry"},
     {"adjust", "reserve", "release_reservation", "periods"},
     {"adjust", "reserve", "commit", "record_actual", "reverse_entry", "top_up", "transition"}}

PostedBy == [adjustment |-> "adjust", reservation |-> "reserve", release |-> "release_reservation",
             commitment |-> "commit", actual |-> "record_actual", reversal |-> "reverse_entry"]

Running == {w \in Worker : cmd[w] # NoRequest}

Dates == {today} \cup {cmd[w].date : w \in Running} \cup {e.date : e \in RangeOf(ledger)}

\* What a state shows of the operations behind it; the release of a conversion is not one.
Used ==
    {cmd[w].op : w \in Running}
    \cup {PostedBy[e.type] : e \in {f \in RangeOf(ledger) : f.key = EntryKey(f.key[1])}}
    \cup {"top_up" : w \in {v \in Running : cmd[v].op = "adjust" /\ ledger # <<>>}}
    \cup {"top_up" : i \in {j \in 2..Len(ledger) : ledger[j].type = "adjustment"}}
    \cup {"periods" : d \in closed \cup {x \in Dates : x > 1}}
    \cup {"transition" : p \in {q \in Project : status[q] # FirstStatus}}

\* None of them reads the funding mode, so one is enough.
OneMix == mode = "roll_down" /\ \E mix \in Mixes : Used \subseteq mix
=============================================================================
