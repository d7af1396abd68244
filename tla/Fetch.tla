-------------------------------- MODULE Fetch --------------------------------
(***************************************************************************)
(* What the callers of source.Provider rely on: Fetch returns every valid  *)
(* entry of the list as it was when it was asked for, in order, or an      *)
(* error.  BuildPlan stores what it gets without an error as the last      *)
(* known good list, and falls back to that list on an error.               *)
(***************************************************************************)
EXTENDS Netip, Sequences, Slices

CONSTANT Lists   \* the lists a publisher may serve: sequences of entries

VARIABLES list, answer

Pending == [state |-> "pending", prefixes |-> <<>>]
Failed  == [state |-> "error", prefixes |-> <<>>]
Ok(ps)  == [state |-> "ok", prefixes |-> ps]

IsCIDR(line) == line.kind = "cidr"

(* The prefixes of the entries that parse.                                 *)
Entries(lines) ==
    LET valid == InOrder({i \in DOMAIN lines : IsCIDR(lines[i])})
    IN  [k \in DOMAIN valid |-> Masked(lines[valid[k]].prefix)]

Init == list \in Lists /\ answer = Pending

Answer ==
    /\ answer = Pending
    /\ answer' \in {Failed, Ok(Entries(list))}
    /\ UNCHANGED list

Ask ==
    /\ answer # Pending
    /\ list' \in Lists
    /\ answer' = Pending

Next == Answer \/ Ask

Spec == Init /\ [][Next]_<<list, answer>>
=============================================================================
