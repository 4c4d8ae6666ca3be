------------------------------ MODULE OtaCopy ------------------------------
(***************************************************************************)
(* What a firmware download promises: as their bytes arrive, the AM record *)
(* and the SSM record of the package are copied to the two halves of an    *)
(* image slot, headers stripped; a good package is then reported complete, *)
(* anything else fails.  Once something went wrong on the way (whole is    *)
(* FALSE) nothing is promised but that complete means complete.            *)
(***************************************************************************)
EXTENDS Integers, Sequences

CONSTANTS
    HeaderLen,  \* bytes before each record
    AmLen,      \* bytes of the AM record
    SsmLen,     \* bytes of the SSM record
    Files       \* the packages offered, "good" among them

VARIABLES
    file,     \* the package under way
    taken,    \* bytes of it that have arrived
    whole,    \* all of them have been taken in
    am, ssm,  \* what is copied of it
    verdict   \* "none", "complete" or "fail"; "idle" without a download

vars == <<file, taken, whole, am, ssm, verdict>>

AmEnd == HeaderLen + AmLen
FileSize == AmEnd + HeaderLen + SsmLen

\* Bytes first .. last of a package: a byte is named by where it stands.
Bytes(f, first, last) ==
    [i \in 1 .. (IF last < first THEN 0 ELSE last - first + 1)
        |-> <<f, first + i - 1>>]
Upto(n, limit) == IF n < limit THEN n ELSE limit

Copies(n) ==
    /\ am' = Bytes(file, HeaderLen + 1, Upto(n, AmEnd))
    /\ ssm' = Bytes(file, AmEnd + HeaderLen + 1, n)
Nothing == am' = <<>> /\ ssm' = <<>>

Init ==
    /\ file \in Files
    /\ taken = 0 /\ whole = TRUE
    /\ am = <<>> /\ ssm = <<>>
    /\ verdict = "idle"

Begin ==
    /\ verdict # "none"
    /\ file' \in Files
    /\ taken' = 0 /\ whole' \in BOOLEAN
    /\ Nothing
    /\ verdict' = "none"

\* More bytes arrive; from there on something may be amiss.
Arrive ==
    /\ verdict = "none"
    /\ taken' \in taken + 1 .. FileSize
    /\ whole' \in {whole, FALSE}
    /\ UNCHANGED file

Take ==
    /\ Arrive /\ taken' < FileSize
    /\ IF whole' THEN Copies(taken') ELSE Nothing
    /\ verdict' = "none"

\* The last bytes of a good package; of one that is not whole only if they
\* were in place already.
Complete ==
    /\ Arrive /\ taken' = FileSize
    /\ file = "good"
    /\ Copies(FileSize)
    /\ verdict' = "complete"

\* The package is damaged or not in the format, or is not whole.
Fail ==
    /\ Arrive
    /\ file # "good" \/ ~whole'
    /\ Nothing
    /\ verdict' = "fail"

\* Some of it has been left out: the end is not seen.
Stall ==
    /\ Arrive /\ ~whole'
    /\ Nothing
    /\ verdict' = "none"

\* The session ends before the download does.
GiveUp ==
    /\ verdict' = "idle"
    /\ Nothing
    /\ UNCHANGED <<file, taken, whole>>

Next == Begin \/ Take \/ Complete \/ Fail \/ Stall \/ GiveUp

Spec == Init /\ [][Next]_vars
=============================================================================
