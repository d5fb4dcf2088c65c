------------------------------ MODULE Library -------------------------------
(***************************************************************************)
(* The code of the kernel that has no state: the functions of string.c,    *)
(* printf, and log_line with the buffer it prints to.  What they compute   *)
(* is checked once, before kmain starts.                                   *)
(***************************************************************************)
EXTENDS Boot, Strings, Printf

AtStart == stage = "limine_verify_requests"

\* memset, memmove, memcpy, strcpy and the comparisons do what the standard
\* says, whatever the alignment, the overlap and the ends of the strings.
StringsRight == AtStart => SetsRight /\ MovesRight /\ ComparesRight

\* nanoprintf finds every specifier and its end in the text around it, takes
\* its stars and its number from the arguments in their order, and prints
\* the number as the standard says, the least one of each type included.
\* What is no specifier is printed as it is.
PrintsRight ==
    AtStart =>
        \A f \in Formats : \A v \in Values(f) :
            npf_vpprintf(<<"=">> \o Written(f) \o <<"%", "%", "%", "q", "%", "s">>, Arguments(f, v) \o <<<<"e">>>>)
                = <<"=">> \o Standard(f, v) \o <<"%", "%", "q", "e">>

\* The room that log_line leaves for the end of the line is enough: a text that
\* vsnprintf does not have to cut is in log_buffer as a whole, the end of the
\* line comes right after it and is in log_buffer too.
LineFits ==
    AtStart =>
        \A level \in DOMAIN log_labels, text \in Texts :
            LET line == log_line(level, text) IN
            Len(text) < line.remaining =>
                line.text = text /\ line.terminator = line.return /\ line.last < log_buffer_size

=============================================================================
