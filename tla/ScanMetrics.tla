---------------------------- MODULE ScanMetrics ----------------------------
(***************************************************************************)
(* What the profiler is told of a parallel binary scan (DuckDB v2.0):      *)
(* MarcScanGetMetrics loads the four counters one after the other, without *)
(* a lock, while the threads go on counting.  When the engine asks is not  *)
(* known here: it may be at any moment of the scan, or after it.           *)
(*                                                                         *)
(* A load sees the counter as it is.  The code asks for no more than       *)
(* relaxed order, under which a processor may also show an older value.    *)
(***************************************************************************)
EXTENDS MarcScan

CONSTANT Profiled   \* bound: the globs during whose scan the metrics are asked for

ASSUME FiniteThreads == IsFiniteSet(Threads)

VARIABLES
  loaded,   \* how many of the counters MarcScanGetMetrics has loaded
  report,   \* what it has found in them
  at_end    \* the scan was over when it began

metricsVars == <<loaded, report, at_end>>

\* Mutant: the records are loaded behind the counters they are compared with.
MetricsRecordsLast ==
  <<"marc8_records", "utf8_records", "decode_errors", "records_parsed">>

\* The counters in the order in which they are loaded.
Metrics ==
  <<"records_parsed", "marc8_records", "utf8_records", "decode_errors">>

MetricsInit ==
  /\ Init
  /\ loaded = 0
  /\ report = counters
  /\ at_end = FALSE

\* The next counter is loaded; the threads are not held up by it.
LoadMetric ==
  /\ paths \in Profiled
  /\ loaded < Len(Metrics)
  /\ loaded' = loaded + 1
  /\ report' = [report EXCEPT ![Metrics[loaded + 1]] =
                  counters[Metrics[loaded + 1]]]
  /\ at_end' = IF loaded = 0 THEN AllStopped ELSE at_end
  /\ UNCHANGED vars

MetricsNext == (Next /\ UNCHANGED metricsVars) \/ LoadMetric

MetricsSpec == MetricsInit /\ [][MetricsNext]_<<vars, metricsVars>>

\* The threads go on, as in FairSpec; that the metrics are read is not assumed.
FairMetricsSpec == MetricsSpec /\ \A t \in Threads : WF_vars(Step(t))

-----------------------------------------------------------------------------

\* "How much of this dump is still MARC-8?" and "how many records failed to
\* decode?" are answered from the reported counters (docs/DUCKDB2.md:439-451),
\* which therefore have to fit together although they are loaded one by one:
\* never does the report miss the encoding of more records than there are
\* threads between the two increments of CountRecord.  Reported after the scan,
\* the encodings account for every record, and unless the query failed the
\* report is that of the glob.
MetricsAddUp ==
  loaded = Len(Metrics) =>
    /\ report.records_parsed <=
         report.marc8_records + report.utf8_records + Cardinality(Threads)
    /\ at_end =>
         report.records_parsed = report.marc8_records + report.utf8_records
    /\ at_end /\ ~failed =>
         /\ report.records_parsed = HowMany(LAMBDA rec : rec.ok)
         /\ report.decode_errors = HowMany(LAMBDA rec : ~rec.ok)
=============================================================================
