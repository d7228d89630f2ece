---------------------------------- MODULE Main ----------------------------------
(***************************************************************************)
(* main(): the commands, the benchmark with its warm-up and its statistics, *)
(* and the exit code.  An encode-decode test, a socket exchange, an encode *)
(* or a decode is one step that succeeds or fails; what happens inside is  *)
(* modelled in FrameTransfer and in the modules of the libraries.  A        *)
(* duration is a whole number of nanoseconds, and the doubles computed     *)
(* from durations are exact: n times the average, twice the median, and    *)
(* n^2 times the sum of squares.                                           *)
(***************************************************************************)
EXTENDS Integers, Sequences, SequencesExt

CONSTANTS
  Argcs,    \* the numbers of arguments the program is started with
  Numbers,  \* what atoi makes of the fifth
  Times(_)  \* the durations a test can take when so many are measured

ASSUME ArgumentsAssumption == Argcs \subseteq Nat \ {0} /\ Numbers \subseteq Int
ASSUME TimesAssumption == \A n \in Numbers \cup {20} : Times(n) \subseteq Nat

MAX_ARRAY == 20
Commands == {"benchmark_test", "no_socket", "array_test", "server", "client", "other"}
Loops == 1..3   \* of the benchmark: one struct, 2 structs, 10 structs

VARIABLES
  argc, command, number,  \* the arguments
  pc,          \* what main does next
  loop, w, i,  \* the benchmark's loop, its warm-up tests and measured tests so far
  times,       \* no_socket_time, two_structure_time, ten_structure_time
  total_time,
  report,      \* the lines the benchmark printed
  ret,
  measured,    \* history: the durations of the measured tests, in their order
  failed       \* history: a step failed or the usage was printed

arguments == <<argc, command, number>>
counters == <<loop, w, i>>
vars == <<argc, command, number, pc, loop, w, i, times, total_time, report, ret,
          measured, failed>>

(***************************************************************************)
(* Statistics.                                                             *)
(***************************************************************************)
\* libc's qsort with cmp_double: the j-th place gets the j-th smallest.
qsort(arr) ==
  [j \in DOMAIN arr |->
     CHOOSE x \in Range(arr) :
       /\ Cardinality({k \in DOMAIN arr : arr[k] < x}) < j
       /\ j <= Cardinality({k \in DOMAIN arr : arr[k] <= x})]

\* What a loop over an array adds up.
Total(v) ==
  LET sum[k \in 0..Len(v)] == IF k = 0 THEN 0 ELSE sum[k - 1] + v[k] IN sum[Len(v)]

\* n times the average.
calculateAverage(arr) == Total(arr)

\* Twice the median, and the array as the call leaves it. _Unsorted: sorted only after the
\* middle was taken.
Middle(s) ==
  IF Len(s) % 2 = 1 THEN 2 * s[Len(s) \div 2 + 1]
  ELSE s[Len(s) \div 2] + s[Len(s) \div 2 + 1]
calculateMedian_Unsorted(arr) == [med |-> Middle(arr), arr |-> qsort(arr)]
calculateMedian(arr) == [med |-> Middle(qsort(arr)), arr |-> qsort(arr)]

\* The sum of squares about the average, times n^2, to be divided by n - 1.  _Mean: the
\* differences are not squared.
calculateStdDev_Mean(arr) ==
  IF Len(arr) <= 1 THEN 0
  ELSE LET n == Len(arr)
           mean == calculateAverage(arr)
       IN Total([j \in DOMAIN arr |-> n * arr[j] - mean])
calculateStdDev(arr) ==
  IF Len(arr) <= 1 THEN 0
  ELSE LET n == Len(arr)
           mean == calculateAverage(arr)
       IN Total([j \in DOMAIN arr |-> (n * arr[j] - mean) * (n * arr[j] - mean)])

(***************************************************************************)
(* The arguments.                                                          *)
(***************************************************************************)
test_number == IF argc >= 5 THEN number ELSE 20
array_size == IF argc = 5 THEN number ELSE 2

\* print_usage is called instead of the command.
Usage ==
  \/ argc < 4
  \/ command = "other"
  \/ command = "benchmark_test" /\ test_number <= 0
  \/ command = "array_test" /\ array_size \notin 1..MAX_ARRAY
  \/ command = "server" /\ argc # 5
  \/ command = "client" /\ argc # 6

warmup ==
  LET runs == IF test_number \div 1000 < 10 THEN 10 ELSE test_number \div 1000
  IN IF runs >= test_number THEN test_number \div 2 ELSE runs

Init ==
  /\ argc \in Argcs /\ command \in Commands /\ number \in Numbers
  /\ pc = "start"
  /\ loop = 1 /\ w = 0 /\ i = 0
  /\ times = [k \in Loops |-> <<>>]
  /\ total_time = 0 /\ report = <<>> /\ ret = -1
  /\ measured = [k \in Loops |-> <<>>] /\ failed = FALSE

(***************************************************************************)
(* Steps.                                                                  *)
(***************************************************************************)
First ==
  CASE command = "benchmark_test" -> "benchmark"
    [] command \in {"no_socket", "array_test"} -> "test"
    [] command = "server" -> "exchange"
    [] command = "client" -> "encode"

Start ==
  /\ pc = "start"
  /\ IF Usage THEN pc' = "done" /\ failed' = TRUE /\ UNCHANGED times
     ELSE /\ pc' = First /\ UNCHANGED failed
          /\ times' = IF command = "benchmark_test"
                      THEN [k \in Loops |-> [j \in 1..test_number |-> 0]] ELSE times
  /\ UNCHANGED <<arguments, counters, total_time, report, ret, measured>>

\* goto done: ret keeps the -1 it was initialised with.
Fail ==
  /\ pc \in {"benchmark", "test", "encode", "exchange", "decode"}
  /\ pc' = "done" /\ failed' = TRUE
  /\ UNCHANGED <<arguments, counters, times, total_time, report, ret, measured>>

Warming == i = 0 /\ w < warmup

\* A warm-up test; its duration goes to tmp_time.
WarmUp ==
  /\ pc = "benchmark" /\ Warming
  /\ w' = w + 1
  /\ UNCHANGED <<arguments, pc, loop, i, times, total_time, report, ret, measured, failed>>

\* A measured test.  After the last one of a loop comes the next loop.
Store(t) == [times EXCEPT ![loop][i + 1] = t]

LastRun == i + 1 >= test_number

Measure(t) ==
  /\ pc = "benchmark" /\ ~Warming
  /\ times' = Store(t)
  /\ measured' = [measured EXCEPT ![loop] = Append(@, t)]
  /\ IF ~LastRun THEN i' = i + 1 /\ UNCHANGED <<pc, loop, w>>
     ELSE /\ i' = 0 /\ w' = 0
          /\ IF loop < 3 THEN loop' = loop + 1 /\ UNCHANGED pc
             ELSE loop' = 1 /\ pc' = "stats"
  /\ UNCHANGED <<arguments, total_time, report, ret, failed>>

\* Average, median, deviation and the line that prints them, of one array.  MIN
\* and MAX are the first and the last element that calculateMedian left.
Line(arr) ==
  LET m == calculateMedian(arr)
  IN [avg |-> calculateAverage(arr), med |-> m.med, sd |-> calculateStdDev(m.arr),
      min |-> m.arr[1], max |-> m.arr[test_number]]

Summarise ==
  /\ pc = "stats"
  /\ report' = Append(report, Line(times[loop]))
  /\ times' = [times EXCEPT ![loop] = calculateMedian(@).arr]
  /\ IF loop < 3 THEN loop' = loop + 1 /\ UNCHANGED <<pc, ret>>
     ELSE pc' = "done" /\ ret' = 0 /\ UNCHANGED loop
  /\ UNCHANGED <<arguments, w, i, total_time, measured, failed>>

\* The one test of no_socket and array_test.
Test(t) ==
  /\ pc = "test"
  /\ pc' = "done" /\ ret' = 0 /\ total_time' = t
  /\ UNCHANGED <<arguments, counters, times, report, measured, failed>>

Encode ==
  /\ pc = "encode"
  /\ pc' = "exchange"
  /\ UNCHANGED <<arguments, counters, times, total_time, report, ret, measured, failed>>

\* do_client or do_server returns 0.  The server has its bytes still to decode.
\* _Early: what was received is a success already.
AfterExchange_Early ==
  IF command = "server" THEN [pc |-> "decode", ret |-> 0] ELSE [pc |-> "done", ret |-> 0]
AfterExchange ==
  IF command = "server" THEN [pc |-> "decode", ret |-> ret] ELSE [pc |-> "done", ret |-> 0]

Exchange ==
  /\ pc = "exchange"
  /\ pc' = AfterExchange.pc /\ ret' = AfterExchange.ret
  /\ UNCHANGED <<arguments, counters, times, total_time, report, measured, failed>>

Decode ==
  /\ pc = "decode"
  /\ pc' = "done" /\ ret' = 0
  /\ UNCHANGED <<arguments, counters, times, total_time, report, measured, failed>>

Next ==
  \/ Start \/ Fail \/ WarmUp \/ Summarise \/ Encode \/ Exchange \/ Decode
  \/ \E t \in Times(test_number) : Measure(t) \/ Test(t)

Spec == Init /\ [][Next]_vars

(***************************************************************************)
(* Properties.                                                             *)
(***************************************************************************)
\* The exit code is 0 exactly when the arguments were accepted and no test, encode,
\* exchange or decode failed, whichever of them it was and however late (the goto
\* done of main); a total time is printed only for a command that succeeded.
ExitCode ==
  /\ pc = "done" => (ret = 0 <=> ~failed)
  /\ total_time # 0 => pc = "done" /\ ret = 0

\* A printed line describes the durations measured in its loop.  MIN and MAX, which
\* main reads from the ends of the array after calculateMedian, are the shortest and
\* the longest of them; at least half of them are not above the median and at least
\* half not below it.
\* The loop measured every one of its test_number tests, none lost, shared with another
\* loop or replaced by a warm-up.
LineDescribesLoop ==
  \A k \in DOMAIN report :
    LET line == report[k]
        x == measured[k]
    IN /\ Len(x) = test_number
       /\ line.min \in Range(x) /\ line.max \in Range(x)
       /\ \A d \in Range(x) : line.min <= d /\ d <= line.max
       /\ 2 * Cardinality({j \in DOMAIN x : 2 * x[j] <= line.med}) >= test_number
       /\ 2 * Cardinality({j \in DOMAIN x : 2 * x[j] >= line.med}) >= test_number

\* The deviation of a printed line is that of the durations measured in its loop,
\* although calculateMedian rearranged the array before: by the identity of Lagrange,
\* twice of it is n times the sum of the squared differences of each to each.
Apart(x, a) == Total([b \in DOMAIN x |-> (x[a] - x[b]) * (x[a] - x[b])])

DeviationOfLoop ==
  \A k \in DOMAIN report :
    LET x == measured[k]
    IN 2 * report[k].sd = test_number * Total([a \in DOMAIN x |-> Apart(x, a)])
=============================================================================
