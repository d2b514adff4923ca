--------------------------------- MODULE Srf ---------------------------------
(***************************************************************************)
(* The value-per-call set-returning-function protocol of pgx/src/fcinfo.rs *)
(* (srf_is_first_call, srf_first_call_init, srf_per_call_setup,            *)
(* srf_return_next, srf_return_done) as a #[pg_extern] SRF wrapper uses   *)
(* it, driven by PostgreSQL's executor.                                    *)
(*                                                                         *)
(* The executor (environment) runs scans of the function.  Before every    *)
(* call it sets rsinfo.isDone to ExprSingleResult; it keeps calling while  *)
(* the function answers ExprMultipleResult, and it may stop a scan early  *)
(* (LIMIT).  init_MultiFuncCall registers shutdown_MultiFuncCall on the    *)
(* expression context; a rescan runs it if it is still registered, which   *)
(* clears fn_extra.  end_MultiFuncCall unregisters it and clears fn_extra. *)
(*                                                                         *)
(* The function state `fc` is a record: fn_extra ("null" or "funcctx"),   *)
(* the FuncCallContext's call_cntr and the rows left in the iterator kept *)
(* in user_fctx, whether the callback is registered, and rsinfo.isDone.   *)
(***************************************************************************)
EXTENDS Naturals, Sequences

CONSTANTS
    MaxRows,   \* longest iterator the user function returns
    MaxScans,  \* scans (first scan plus rescans) the executor runs
    NoLimit,   \* a scan without LIMIT
    NoIter     \* no first call happened in this scan

ASSUME MaxRows \in Nat /\ MaxScans \in Nat \ {0}

VARIABLES
    fc,       \* the function's state, see above
    epc,      \* executor: "idle" between scans, "running" in one
    scans,    \* scans started
    limit,    \* LIMIT of the current scan
    emitted,  \* call_cntr after each srf_return_next of this scan
    made,     \* length of the iterator this scan's first call created
    ended     \* how the last scan ended: "end", "single", "limit", "none"

vars == <<fc, epc, scans, limit, emitted, made, ended>>

Limits == (0..MaxRows) \cup {NoLimit}

FcType == [fn_extra : {"null", "funcctx"}, call_cntr : 0..MaxRows,
           iter : 0..MaxRows, callback : BOOLEAN,
           isDone : {"single", "multiple", "end"}]

TypeOK ==
    /\ fc \in FcType
    /\ epc \in {"idle", "running"}
    /\ scans \in 0..MaxScans
    /\ limit \in Limits
    /\ emitted \in Seq(0..MaxRows) /\ Len(emitted) <= MaxRows + 1
    /\ made \in (0..MaxRows) \cup {NoIter}
    /\ ended \in {"end", "single", "limit", "none"}

Init ==
    /\ fc = [fn_extra |-> "null", call_cntr |-> 0, iter |-> 0,
             callback |-> FALSE, isDone |-> "single"]
    /\ epc = "idle"
    /\ scans = 0
    /\ limit = NoLimit
    /\ emitted = <<>>
    /\ made = NoIter
    /\ ended = "none"

(* srf_is_first_call (fcinfo.rs:402-408): flinfo.fn_extra is null. *)
SrfIsFirstCall(s) == s.fn_extra = "null"

(* Mutant: a FuncCallContext whose call_cntr is not zeroed. *)
SrfFirstCallInitNoZero(s, len) ==
    [s EXCEPT !.fn_extra = "funcctx", !.iter = len, !.callback = TRUE]

(* srf_first_call_init (fcinfo.rs:410-416): init_MultiFuncCall allocates a *)
(* zeroed FuncCallContext into fn_extra and registers the shutdown         *)
(* callback; the wrapper then stores the user function's iterator, of      *)
(* `len` rows, in user_fctx.                                               *)
SrfFirstCallInit(s, len) ==
    [s EXCEPT !.fn_extra = "funcctx", !.call_cntr = 0, !.iter = len,
              !.callback = TRUE]

(* srf_per_call_setup (fcinfo.rs:418-424): per_MultiFuncCall hands back   *)
(* fn_extra as the FuncCallContext; it changes nothing.                    *)
SrfPerCallSetup(s) == s

(* Mutant: srf_return_next that does not advance call_cntr. *)
SrfReturnNextNoCount(s) ==
    [s EXCEPT !.iter = @ - 1, !.isDone = "multiple"]

(* Mutant: srf_return_next that does not set isDone. *)
SrfReturnNextNoIsDone(s) ==
    [s EXCEPT !.call_cntr = @ + 1, !.iter = @ - 1]

(* srf_return_next (fcinfo.rs:426-436) after the wrapper took a row from  *)
(* the iterator: call_cntr += 1, rsinfo.isDone = ExprMultipleResult.       *)
SrfReturnNext(s) ==
    [s EXCEPT !.call_cntr = @ + 1, !.iter = @ - 1, !.isDone = "multiple"]

(* Mutant: srf_return_done that leaves isDone as ExprMultipleResult. *)
SrfReturnDoneStillMultiple(s) ==
    [s EXCEPT !.fn_extra = "null", !.callback = FALSE, !.isDone = "multiple"]

(* srf_return_done (fcinfo.rs:438-447): end_MultiFuncCall unregisters the  *)
(* callback and clears fn_extra; rsinfo.isDone = ExprEndResult.            *)
SrfReturnDone(s) ==
    [s EXCEPT !.fn_extra = "null", !.callback = FALSE, !.isDone = "end"]

(* Executor: a scan starts (ExecReScan runs the registered shutdown        *)
(* callback, shutdown_MultiFuncCall, which clears fn_extra).               *)
StartScan ==
    /\ epc = "idle"
    /\ scans < MaxScans
    /\ fc' = IF fc.callback
                THEN [fc EXCEPT !.fn_extra = "null", !.callback = FALSE]
                ELSE fc
    /\ \E l \in Limits : limit' = l
    /\ scans' = scans + 1
    /\ epc' = "running"
    /\ emitted' = <<>>
    /\ made' = NoIter
    /\ ended' = "none"

(* One call of the SRF wrapper: isDone preset by the executor, first-call *)
(* initialisation, per-call setup, then the next row or the end.  The      *)
(* executor goes on only on ExprMultipleResult.  MaxRows + 1 calls finish *)
(* any correct scan, so the cap on calls cuts no behaviour of the code.    *)
Call ==
    /\ epc = "running"
    /\ IF limit = NoLimit THEN TRUE ELSE Len(emitted) < limit
    /\ Len(emitted) <= MaxRows
    /\ \E len \in 0..MaxRows :
         LET first == SrfIsFirstCall(fc)
             s0 == [fc EXCEPT !.isDone = "single"]
             s1 == SrfPerCallSetup(IF first THEN SrfFirstCallInit(s0, len) ELSE s0)
             s2 == IF s1.iter > 0 THEN SrfReturnNext(s1) ELSE SrfReturnDone(s1)
         IN /\ fc' = s2
            /\ made' = IF first THEN len ELSE made
            /\ emitted' = IF s1.iter > 0 THEN Append(emitted, s2.call_cntr)
                                         ELSE emitted
            /\ epc' = IF s2.isDone = "multiple" THEN "running" ELSE "idle"
            /\ ended' = IF s2.isDone = "multiple" THEN ended ELSE s2.isDone
            /\ first \/ len = 0
    /\ UNCHANGED <<scans, limit>>

(* Executor: LIMIT reached; the function is not called again this scan.   *)
StopEarly ==
    /\ epc = "running"
    /\ limit # NoLimit /\ Len(emitted) = limit
    /\ epc' = "idle"
    /\ ended' = "limit"
    /\ UNCHANGED <<fc, scans, limit, emitted, made>>

Next == StartScan \/ Call \/ StopEarly

Spec == Init /\ [][Next]_vars /\ WF_vars(Next)

-----------------------------------------------------------------------------

(* Every scan returns the rows of its own iterator, numbered by call_cntr *)
(* 1, 2, ... in order, and a scan that LIMIT did not stop ends by          *)
(* ExprEndResult after the last one.  A rescan after LIMIT, after the end *)
(* or after an earlier scan's end must start a fresh FuncCallContext.      *)
ScanYieldsOwnIterator ==
    /\ \A i \in 1..Len(emitted) : emitted[i] = i
    /\ Len(emitted) > 0 => made # NoIter /\ Len(emitted) <= made
    /\ epc = "idle" /\ ended \notin {"limit", "none"} =>
          /\ ended = "end"
          /\ made # NoIter
          /\ Len(emitted) = made

(* Every scan comes to an end: the executor stops calling the function.   *)
Terminates == [](epc = "running" => <>(epc = "idle"))

=============================================================================
