------------------------------- MODULE Provider -------------------------------
(***************************************************************************)
(* internal/source/txt and internal/source/ripe: fetching a list.          *)
(*                                                                         *)
(* A list is a sequence of lines (txt) or of the strings of a JSON         *)
(* document's two arrays, ipv4 before ipv6 (ripe_country).  A line is      *)
(*   "cidr"   a prefix, perhaps with host bits, perhaps with a comment,    *)
(*   "blank"  empty or a comment,                                          *)
(*   "bad"    anything else that does not parse,                           *)
(*   "long"   at least 64 KiB: bufio.Scanner stops there (ErrTooLong).     *)
(* The beginnings of a line that does not parse, or is too long, may:      *)
(* "192.0.2.0/33" begins with "192.0.2.0/3", and 64 KiB of comment may     *)
(* follow a prefix.  "starts" are the prefixes such a line begins with.    *)
(* The connection may break between any two bytes: with a read error, or,  *)
(* when the server gave no length, as if the body ended there.             *)
(***************************************************************************)
EXTENDS Source, Sequences

CONSTANTS
    Types,   \* source.type of the groups
    Lists,   \* what publishers may serve
    Radix    \* prefix lengths are written to this base: 10

ASSUME RadixAssumption == Radix \in Nat \ {0, 1}

Line ==
    [kind : {"cidr"}, prefix : RawPrefix] \cup [kind : {"blank"}] \cup
    [kind : {"bad", "long"}, starts : SUBSET RawPrefix]

ASSUME ListsAssumption == Lists \subseteq Seq(Line)

VARIABLES
    type,    \* the provider that providerFor chose
    local,   \* a txt list in a file
    list,    \* the lines
    json,    \* ripe: the document is well-formed
    phase,   \* "open", "read" or "done"
    pos,     \* lines read
    out,     \* Parse's result so far
    stop,    \* why reading ended
    answer   \* what Fetch has returned

vars == <<type, local, list, json, phase, pos, out, stop, answer>>
request == <<type, local, list, json>>

(* The answers that are measured against Fetch: a list that txt returns    *)
(* stands for an error there, since nobody vouches for it being whole.     *)
Vouched ==
    IF type = "txt" /\ answer.state = "ok" THEN [state |-> "error", prefixes |-> <<>>]
    ELSE answer

F == INSTANCE Fetch WITH answer <- Vouched

(* providerFor, New and the call of Fetch.                                 *)
Begin ==
    /\ type' \in Types
    /\ local' \in (IF type' = "txt" THEN BOOLEAN ELSE {FALSE})
    /\ list' \in Lists
    /\ json' \in (IF type' = "txt" THEN {FALSE} ELSE BOOLEAN)
    /\ phase' = "open" /\ pos' = 0 /\ out' = <<>> /\ stop' = ""
    /\ answer' = F!Pending

Init ==
    /\ type \in Types
    /\ local \in (IF type = "txt" THEN BOOLEAN ELSE {FALSE})
    /\ list \in Lists
    /\ json \in (IF type = "txt" THEN {FALSE} ELSE BOOLEAN)
    /\ phase = "open" /\ pos = 0 /\ out = <<>> /\ stop = ""
    /\ answer = F!Pending

Ask == phase = "done" /\ Begin

Return(a) == phase' = "done" /\ answer' = a /\ UNCHANGED request

-----------------------------------------------------------------------------
(* open, and Client.Do: the file or the response is there, or an error.    *)
Open ==
    /\ phase = "open"
    /\ phase' = "read"
    /\ UNCHANGED <<request, pos, out, stop, answer>>

(* No such file, no connection, or a status other than 2xx.                *)
OpenFails ==
    /\ phase = "open"
    /\ Return(F!Failed)
    /\ UNCHANGED <<pos, out, stop>>

(* netip.ParsePrefix and Masked; a line that does not parse is skipped.    *)
Parsed(line) == IF F!IsCIDR(line) THEN <<Masked(line.prefix)>> ELSE <<>>

(* The beginnings of a written length of at most three digits.             *)
ShorterLengths(bits) == {bits \div Radix, bits \div (Radix * Radix)} \ {0}

(* The prefixes that a beginning of the line may be read as.  Of           *)
(* "10.0.0.0/24" the beginning "10.0.0.0/2" is a prefix as well; of a CIDR *)
(* with a comment, or without its newline, the whole prefix may be there.  *)
CutsOf(line) ==
    CASE line.kind = "cidr" -> {line.prefix} \cup
             {[line.prefix EXCEPT !.bits = b] : b \in ShorterLengths(line.prefix.bits)}
      [] line.kind = "blank" -> {}
      [] OTHER -> line.starts

(* txt.Parse: one iteration of the loop.                                   *)
Scan ==
    /\ phase = "read" /\ type = "txt"
    /\ pos < Len(list) /\ list[pos + 1].kind # "long"
    /\ pos' = pos + 1
    /\ out' = out \o Parsed(list[pos + 1])
    /\ UNCHANGED <<request, phase, stop, answer>>

ScanEndsInvalidList ==   \* mutant: the first line that does not parse ends the loop
    /\ phase = "read" /\ type = "txt"
    /\ \/ pos = Len(list) /\ stop' = "eof"
       \/ pos < Len(list) /\ list[pos + 1].kind = "long" /\ stop' = "long"
       \/ pos < Len(list) /\ list[pos + 1].kind = "bad" /\ stop' = "eof"
    /\ Return(F!Ok(out))
    /\ UNCHANGED <<pos, out>>

(* sc.Scan() returns false; Parse does not ask why.                        *)
ScanEnds ==
    /\ phase = "read" /\ type = "txt"
    /\ \/ pos = Len(list) /\ stop' = "eof"
       \/ pos < Len(list) /\ list[pos + 1].kind = "long" /\ stop' = "long"
    /\ Return(F!Ok(out))
    /\ UNCHANGED <<pos, out>>

(* The body breaks in the middle of the next line, or times out there:     *)
(* what has been read of the line is the last line.                        *)
ScanBreaks ==
    /\ phase = "read" /\ type = "txt"
    /\ pos < Len(list)
    /\ \/ out' = out
       \/ \E p \in CutsOf(list[pos + 1]) : out' = Append(out, Masked(p))
    /\ stop' = "broken"
    /\ Return(F!Ok(out'))
    /\ UNCHANGED pos

(* ripe.Fetch: io.ReadAll takes in another part of the document ...        *)
ReadSome ==
    /\ phase = "read" /\ type = "ripe_country"
    /\ pos < Len(list)
    /\ pos' = pos + 1
    /\ UNCHANGED <<request, phase, out, stop, answer>>

(* ... or all of it, and ripe.Parse keeps what is valid.                   *)
ReadAll ==
    /\ phase = "read" /\ type = "ripe_country"
    /\ pos = Len(list)
    /\ out' = IF json THEN F!Entries(list) ELSE <<>>
    /\ Return(IF json THEN F!Ok(out') ELSE F!Failed)
    /\ stop' = "eof"
    /\ UNCHANGED pos

ReadBreaksStreaming ==   \* mutant: decode while reading, keep what has been decoded
    /\ phase = "read" /\ type = "ripe_country"
    /\ stop' = "broken"
    /\ out' = F!Entries(SubSeq(list, 1, pos))
    /\ Return(F!Ok(out'))
    /\ UNCHANGED pos

(* ReadAll's error, or the syntax error of a document that is cut short.   *)
ReadBreaks ==
    /\ phase = "read" /\ type = "ripe_country"
    /\ stop' = "broken"
    /\ Return(F!Failed)
    /\ UNCHANGED <<pos, out>>

GiveUpNever == FALSE   \* mutant: a client without a timeout

(* http.Client.Timeout, which runs on while the body is read, and the      *)
(* cancellation of the context, end whatever the request is doing.         *)
GiveUp == ~local /\ (OpenFails \/ ScanBreaks \/ ScanEnds \/ ReadBreaks)

ReadLocal == local /\ (Open \/ Scan \/ ScanEnds)

Next ==
    \/ Ask \/ Open \/ OpenFails \/ Scan \/ ScanEnds \/ ScanBreaks
    \/ ReadSome \/ ReadAll \/ ReadBreaks

Spec == Init /\ [][Next]_vars

(* A server owes no answer; the timeout comes, and so does what the disk   *)
(* holds.                                                                  *)
FairSpec == Spec /\ WF_vars(GiveUp) /\ WF_vars(ReadLocal)

-----------------------------------------------------------------------------
(* Properties *)

(* Every fetch comes to an end, whatever the server does: the loop that    *)
(* waits for it would otherwise see neither SIGHUP nor SIGTERM's cleanup.  *)
FetchEnds == (phase # "done") ~> (phase = "done")

(* ripe.Fetch never mistakes a part of the list for the list: a document   *)
(* that breaks anywhere is an error, and the caller falls back to the last *)
(* known good list.                                                        *)
ImplementsFetch == F!Spec

(* txt.Fetch may.  But the damage is bounded: what it returns are the      *)
(* valid entries above the line where reading stopped, all of them if it   *)
(* reached the end, and at most one network more, only of a line in whose  *)
(* middle the body breaks: a network that contains the line's own, unless  *)
(* the whole line is invalid, and what begins it was never published.      *)
DamageIsBounded ==
    type = "txt" /\ answer.state = "ok" =>
        LET read  == F!Entries(SubSeq(list, 1, pos))
            extra == SubSeq(answer.prefixes, Len(read) + 1, Len(answer.prefixes))
        IN  /\ SubSeq(answer.prefixes, 1, Len(read)) = read
            /\ stop = "eof" => answer.prefixes = F!Entries(list)
            /\ \/ extra = <<>>
               \/ /\ stop = "broken" /\ pos < Len(list) /\ Len(extra) = 1
                  /\ \/ list[pos + 1].kind \in {"bad", "long"}
                     \/ /\ F!IsCIDR(list[pos + 1])
                        /\ CoveredBy(Masked(list[pos + 1].prefix), extra[1])
=============================================================================
