---------------------------- MODULE CompareData ----------------------------
(***************************************************************************)
(* CompareData (compare_data.py): the verdict on an output and the error     *)
(* reports, for the outputs of one case (ResultCompare.compare) or of one     *)
(* directory (compare_by_path).                                              *)
(*                                                                         *)
(* A number is a multiple of 1/Unit, or NAN or INF; a rate is a fraction       *)
(* <<p, q>>.  The 1e-9 the code adds to a denominator is kept as the           *)
(* strictness it gives a comparison; other rounding is left out.              *)
(***************************************************************************)
EXTENDS Integers, Sequences, FiniteSets

CONSTANTS NAN, INF,
          OutputLists,     \* lists of outputs [real, expect], sequences of numbers
          LaterLists,      \* those a later comparison in the directory may have
          WithoutPandas,   \* pandas may not be installed
          Commands,        \* the commands that compare, "compare", "compare_by_path"
          MaxCommands,     \* bound
          Unit,
          DiffThd, PctThd, \* err_thr: in units, and in percent
          MaxDiff,         \* max_diff_hd, in percent
          CsvMaxLine       \* CSV_MAX_LINE

VARIABLES outputs, command, error_report,
          at,              \* the output that is compared
          results,         \* its results, and those before it
          rows,            \* err_data: what is left to be written
          part,            \* the number of the csv file to write, -1 for none
          files,           \* csv file -> its rows
          error, commands

vars == <<outputs, command, error_report, at, results, rows, part, files, error, commands>>

Init ==
  /\ outputs \in OutputLists /\ command \in Commands /\ error_report \in BOOLEAN
  /\ at = 1 /\ results = <<>> /\ rows = <<>> /\ part = -1 /\ files = <<>>
  /\ error = "none" /\ commands = 1

-----------------------------------------------------------------------------
(* The verdict                                                             *)

Abs(x) == IF x < 0 THEN -x ELSE x
Bigger(x, y) == IF x > y THEN x ELSE y
Numbers == Int \cup {NAN, INF}
Finite(x) == x \notin {NAN, INF}

\* numpy: the difference with a number that is not finite is nan, or inf,
\* and only the latter is greater than 0.
Differs(r, e) ==
  IF Finite(r) /\ Finite(e) THEN r # e ELSE r # e /\ NAN \notin {r, e}

\* _cal_relative_diff_np: inf / inf is nan, which is above no threshold.
Floor == (Unit * Unit) \div (16384 * DiffThd)
Rate(r, e) ==
  IF ~(Finite(r) /\ Finite(e)) THEN NAN
  ELSE IF Abs(r - e) < DiffThd THEN <<Abs(r - e), Unit>>
       ELSE <<Abs(r - e), Bigger(Bigger(Abs(r), Abs(e)), Floor)>>
Above(rate, p, q) == rate # NAN /\ rate[1] * q > p * rate[2]

\* The elements that differ, and those of them that are errors.
DiffIndex(o) == {i \in DOMAIN o.real : Differs(o.real[i], o.expect[i])}
ErrIdx(o) == {i \in DiffIndex(o) : Above(Rate(o.real[i], o.expect[i]), DiffThd, Unit)}

TooFar_Never(o) == FALSE
TooFar(o) == \E i \in ErrIdx(o) : Above(Rate(o.real[i], o.expect[i]), MaxDiff, 100)

\* _get_error_percent: fulfill_percent >= 1 - pct_thd, and no error of 0.1.
ErrorPercent(o) ==
  IF 100 * (Len(o.real) - Cardinality(ErrIdx(o))) >= (100 - PctThd) * Len(o.real) /\ ~TooFar(o)
  THEN "Pass" ELSE "Failed"

\* compare, _get_compare_result; MemoryError is left out.
Verdict(o) ==
  CASE Len(o.real) = 0 /\ Len(o.expect) = 0 -> "Pass"
    [] Len(o.real) # Len(o.expect) -> "Failed"
    [] OTHER -> ErrorPercent(o)

-----------------------------------------------------------------------------
(* The steps                                                               *)

\* The rows of _show_and_write_err_report; sizes that differ show none.
ErrorRows(o) ==
  LET nth(k) == CHOOSE i \in ErrIdx(o) : Cardinality({j \in ErrIdx(o) : j <= i}) = k
  IN  IF Len(o.real) # Len(o.expect) THEN <<>>
      ELSE [k \in 1 .. Cardinality(ErrIdx(o)) |-> <<at, nth(k)>>]

\* The result of an output, and whether its errors are shown and reported.
Reports(o) == Verdict(o) = "Failed" /\ Len(o.real) = Len(o.expect) /\ error_report

Compare ==
  /\ command = "compare" /\ part = -1 /\ at <= Len(outputs)
  /\ results' = Append(results, Verdict(outputs[at]))
  /\ IF Reports(outputs[at]) THEN rows' = ErrorRows(outputs[at]) /\ part' = 0 /\ UNCHANGED at
                             ELSE at' = at + 1 /\ UNCHANGED <<rows, part>>
  /\ UNCHANGED <<outputs, command, error_report, files, error, commands>>

\* A file of the directory, with its expected file; those without one, or
\* without a type in their name, are skipped.  There is no case, and the path
\* of a report cannot be made of its name (_get_err_report_path).
CompareByPath ==
  /\ command = "compare_by_path" /\ error = "none" /\ at <= Len(outputs)
  /\ \/ /\ results' = Append(results, Verdict(outputs[at]))
        /\ IF Reports(outputs[at]) THEN error' = "AttributeError" /\ UNCHANGED at
                                   ELSE at' = at + 1 /\ UNCHANGED error
     \/ results' = Append(results, "skipped") /\ at' = at + 1 /\ UNCHANGED error
  /\ UNCHANGED <<outputs, command, error_report, rows, part, files, commands>>

Name(i, several) == IF several THEN <<"error_report", i>> ELSE <<"error_report">>
Several == Len(rows) > CsvMaxLine
Parts == (Len(rows) + CsvMaxLine - 1) \div CsvMaxLine

PartEnd_Short(i) == (i + 1) * CsvMaxLine - 1
\* The slice of _save_data_to_multi_csv, whose end is part of it.
PartEnd(i) ==
  IF (i + 1) * CsvMaxLine > Len(rows) THEN Len(rows) ELSE (i + 1) * CsvMaxLine

\* _save_data_to_csv, _save_data_to_multi_csv: one file, over the one of this
\* name.
WriteCsv ==
  /\ part >= 0 /\ error = "none"
  /\ LET name == Name(part, Several)
         data == IF Several THEN SubSeq(rows, part * CsvMaxLine + 1, PartEnd(part)) ELSE rows
     IN  files' = [f \in DOMAIN files \cup {name} |-> IF f = name THEN data ELSE files[f]]
  /\ IF Several /\ part + 1 < Parts THEN part' = part + 1 /\ UNCHANGED at
                                    ELSE part' = -1 /\ at' = at + 1
  /\ UNCHANGED <<outputs, command, error_report, results, rows, error, commands>>

\* _write_err_report: without pandas there is no report, and that is logged.
NoPandas ==
  /\ WithoutPandas /\ part = 0 /\ error = "none" /\ part' = -1 /\ at' = at + 1 /\ rows' = <<>>
  /\ UNCHANGED <<outputs, command, error_report, results, files, error, commands>>

\* Another comparison in the directory, of other outputs.
NextCommand ==
  /\ part = -1 /\ (at > Len(outputs) \/ error # "none") /\ commands < MaxCommands
  /\ outputs' \in LaterLists
  /\ at' = 1 /\ results' = <<>> /\ rows' = <<>> /\ error' = "none"
  /\ commands' = commands + 1
  /\ UNCHANGED <<command, error_report, part, files>>

Next == Compare \/ CompareByPath \/ WriteCsv \/ NoPandas \/ NextCommand
Spec == Init /\ [][Next]_vars

-----------------------------------------------------------------------------
(* Properties                                                              *)

\* The floor of the denominator is too low to let an element pass that is off:
\* diff_thd is above 0.0025.
LowFloor == Floor < Unit /\ MaxDiff * Floor < 100 * DiffThd

\* A result is "Pass" only if the sizes agree and, of the elements with two
\* finite numbers, no more than pct_thd of all are off by diff_thd or more, and
\* by more than that relatively, and none of these by more than a tenth; and
\* every output that is this close passes (_get_error_percent,
\* _cal_relative_diff_np, with their filters in turn).
VerdictSound ==
  LowFloor => \A k \in DOMAIN results : results[k] # "skipped" =>
    LET o == outputs[k]
        both == {i \in DOMAIN o.real : i \in DOMAIN o.expect /\ Finite(o.real[i]) /\ Finite(o.expect[i])}
        diff(i) == Abs(o.real[i] - o.expect[i])
        exceeds(i, p, q) == diff(i) * q > p * Bigger(Abs(o.real[i]), Abs(o.expect[i]))
        off == {i \in both : diff(i) >= DiffThd /\ exceeds(i, DiffThd, Unit)}
    IN  (results[k] = "Pass") <=>
          /\ Len(o.real) = Len(o.expect)
          /\ 100 * Cardinality(off) <= PctThd * Len(o.real)
          /\ \A i \in off : ~exceeds(i, MaxDiff, 100)

\* The file of part i has the rows from i * CSV_MAX_LINE on, as far as it goes.
PartOf(i) ==
  LET f == files[Name(i, TRUE)]
  IN  /\ Name(i, TRUE) \in DOMAIN files /\ Len(f) \in 1 .. CsvMaxLine
      /\ \A j \in 1 .. Len(f) : f[j] = rows[i * CsvMaxLine + j]

\* When the report of an output has been written, the files written for it
\* hold its errors, each once and in order, none of them longer than
\* CSV_MAX_LINE (_save_data_to_multi_csv).
ReportComplete ==
  part = -1 /\ rows # <<>> /\ error = "none" =>
    IF Several
    THEN /\ \A i \in 0 .. Parts - 1 : PartOf(i)
         /\ \A k \in 1 .. Len(rows) : \E i \in 0 .. Parts - 1 :
              k - i * CsvMaxLine \in 1 .. Len(files[Name(i, TRUE)])
    ELSE files[Name(0, FALSE)] = rows

=============================================================================
