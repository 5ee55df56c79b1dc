--------------------------- MODULE WorkloadReader ---------------------------
(***************************************************************************)
(* How the p6 client loads its workload (client.c: count_lines,            *)
(* add_line_to_req, read_input_files).  A line is reduced to what the      *)
(* parser makes of it: "put" and "get" are complete requests, "short" is a *)
(* put whose value is missing, "bad" starts with neither word.  stdio's    *)
(* fgets and feof are modelled from their use: the end of the file is only *)
(* noticed by a read that reaches it, and a read that finds nothing leaves *)
(* the caller's buffer as it was.                                          *)
(***************************************************************************)
EXTENDS Naturals, Sequences, TLC

CONSTANTS Files   \* [lines: a sequence of lines, newline: does the last one end in \n]

VARIABLES file, stage,       \* "count", "read" or "done"
          next, eof,         \* stdio's position (next line) and end-of-file flag
          line,              \* the buffer of fgets
          num_requests,      \* nl in count_lines; the length the arrays are given
          index,
          requests           \* the entries written, by index

vars == <<file, stage, next, eof, line, num_requests, index, requests>>

Init == /\ file \in Files
        /\ stage = "count" /\ next = 1 /\ eof = FALSE
        /\ line \in {"put", "get", "short", "bad"}   \* an uninitialised local
        /\ num_requests = 0 /\ index = 0
        /\ requests = << >>

\* The last line of a file without a final newline is read up to the end of file.
fgets == IF next <= Len(file.lines)
         THEN /\ line' = file.lines[next]
              /\ next' = next + 1
              /\ eof' = (next = Len(file.lines) /\ ~file.newline)
         ELSE /\ eof' = TRUE
              /\ UNCHANGED <<line, next>>

\* One round of count_lines' loop; the line that meets the end is not counted.
CountLine == /\ stage = "count" /\ ~eof
             /\ fgets
             /\ num_requests' = IF eof' THEN num_requests ELSE num_requests + 1
             /\ UNCHANGED <<file, stage, index, requests>>

\* fseek to the start clears the end-of-file flag; the arrays are allocated.  The
\* buffer of read_input_files is another uninitialised local.
Allocate == /\ stage = "count" /\ eof
            /\ stage' = "read" /\ next' = 1 /\ eof' = FALSE
            /\ line' \in {"put", "get", "short", "bad"}
            /\ UNCHANGED <<file, num_requests, index, requests>>

\* add_line_to_req(line, index): what it stores, also when it then fails.
Stored(l) == IF l = "bad" THEN << >> ELSE (index :> l)

\* One round of read_input_files' loop.
ReadLine == /\ stage = "read" /\ ~eof
            /\ fgets
            /\ requests' = Stored(line') @@ requests
            /\ index' = IF line' \in {"put", "get"} THEN index + 1 ELSE index
            /\ UNCHANGED <<file, stage, num_requests>>

Finish == /\ stage = "read" /\ eof
          /\ stage' = "done"
          /\ UNCHANGED <<file, next, eof, line, num_requests, index, requests>>

Next == CountLine \/ Allocate \/ ReadLine \/ Finish

Spec == Init /\ [][Next]_vars

\* client.c:217, "Allocates both requests/results array enough space for all
\* requests": every entry written lies inside the array of num_requests entries.
EnoughSpace == \A i \in DOMAIN requests : i < num_requests
=============================================================================
