------------------------------ MODULE Responses ------------------------------
(***************************************************************************)
(* The wrappers every HTTP response of the server goes through: recovery   *)
(* from panics (main.go) around the deferred decision to compress          *)
(* (compress.go).  A response is held back until it is known whether it is *)
(* large enough; a status, a header, a flush or a hijack may decide        *)
(* earlier.  Compressors come from a pool that all responses share.        *)
(*                                                                         *)
(* Clients that do not accept gzip bypass the wrapper and are left out.    *)
(* A byte is a pair of its response and its position; a unit of size       *)
(* stands for half of gzipMinBytes.  Kinds of response:                    *)
(*   "text"    compressible, with or without a Content-Length             *)
(*   "opaque"  a range, an event stream, a download, already encoded       *)
(*   "upgrade" hijacked, right after its 101 (the exec endpoint) or with    *)
(*             none sent through the wrapper (the proxy answers on the bare   *)
(*             connection)                                                    *)
(***************************************************************************)
EXTENDS Naturals, Sequences

CONSTANTS
    Exchanges,     \* the requests being answered
    Compressors,   \* what gzipPool can hand out, as many as exchanges
    SmallBelow,    \* gzipMinBytes
    KindsOf,       \* what each of them may turn out to be
    BodyUnits      \* bound: size of each one's body

ASSUME ResponsesAssumption ==
    /\ SmallBelow \in Nat \ {0} /\ BodyUnits \in [Exchanges -> Nat]
    /\ "none" \notin Exchanges \cup Compressors

VARIABLES
    res,      \* per exchange, the gzipWriter and what is on the wire; see Fresh
    pool,     \* compressors in gzipPool, or not made yet
    zip       \* per compressor: the exchange it writes to, and what it holds

respVars == <<res, pool, zip>>

ResponseKinds == {"text", "sized", "opaque", "upgrade"}
NoHead == [status |-> "none", gzip |-> FALSE, length |-> FALSE]
Unused == [to |-> "none", holds |-> <<>>]

Fresh(kind) ==
    [kind |-> kind, mode |-> "undecided",
     code |-> "none",               \* the status recorded, "none" before wroteHead
     buf |-> <<>>, gz |-> "none",
     length |-> kind = "sized",     \* Content-Length in the header map
     head |-> NoHead,               \* status line and headers sent
     wire |-> <<>>,                 \* body bytes sent, and whether compressed
     asked |-> "implied",           \* the status the handler meant
     written |-> 0, flushed |-> 0,  \* bytes written, and up to the last flush
     early |-> FALSE,               \* an informational response came first
     end |-> "serving"]

ResponsesInit ==
    /\ \E kind \in [Exchanges -> ResponseKinds] :
          /\ \A r \in Exchanges : kind[r] \in KindsOf[r]
          /\ res = [r \in Exchanges |-> Fresh(kind[r])]
    /\ pool = Compressors /\ zip = [z \in Compressors |-> Unused]

-------------------------------------------------------------------------------
(* The connection below *)

\* An informational status is sent at once and is not the response's.
Commit(x, status) ==
    IF x.head.status # "none" \/ status = "early" THEN x
    ELSE [x EXCEPT !.head = [status |-> status, gzip |-> x.mode = "gzip", length |-> x.length]]

Emit(x, bytes, gzip) ==
    [Commit(x, "implied") EXCEPT !.wire = @ \o [i \in 1 .. Len(bytes) |-> <<bytes[i], gzip>>]]

-------------------------------------------------------------------------------
(* gzipWriter *)

WriteHeader(x, status) ==
    IF x.code # "none" THEN x
    ELSE LET y == [x EXCEPT !.code = status]
         IN IF x.kind = "opaque" \/ status = "switching"
            THEN Commit([y EXCEPT !.mode = "passthrough"], status)
            ELSE y

\* A bug to catch: a flush decides the mode and forgets what was held back.
PlainNowOnward(x) == Commit([x EXCEPT !.mode = "passthrough", !.buf = <<>>], x.code)

\* The buffered bytes go out uncompressed: Flush, and the end of a small response.
PlainNow(x) == Emit(Commit([x EXCEPT !.mode = "passthrough", !.buf = <<>>], x.code), x.buf, FALSE)

Body(r, n) == [i \in 1 .. n |-> <<r, res[r].written + i>>]

Serving(r) == res[r].end = "serving"

\* The handler sets its status.
SetsStatus(r) ==
    /\ Serving(r) /\ res[r].asked = "implied" /\ res[r].written = 0
    /\ LET status == IF res[r].kind = "upgrade" THEN "switching" ELSE "own"
       IN res' = [res EXCEPT ![r] = [WriteHeader(@, status) EXCEPT !.asked = status]]
    /\ UNCHANGED <<pool, zip>>

\* The preview proxy relays a 1xx response of the backend, whose own headers
\* are not known yet: what WriteHeader records is not overwritten later.
Informs(r) ==
    /\ Serving(r) /\ res[r].asked = "implied" /\ res[r].written = 0 /\ res[r].kind # "upgrade"
    /\ LET code == IF res[r].code = "none" THEN "early" ELSE res[r].code
       IN res' = [res EXCEPT ![r] = [@ EXCEPT !.code = code, !.early = TRUE]]
    /\ UNCHANGED <<pool, zip>>

Grown(x, n) == [WriteHeader(x, "implied") EXCEPT !.written = @ + n]

\* Write, in each mode.
WritesPlain(r, n) ==
    LET x == Grown(res[r], n)
    IN /\ x.mode = "passthrough" /\ res' = [res EXCEPT ![r] = Emit(x, Body(r, n), FALSE)]
       /\ UNCHANGED <<pool, zip>>

WritesHeld(r, n) ==
    LET x == Grown(res[r], n)
    IN /\ x.mode = "undecided" /\ Len(x.buf) + n < SmallBelow
       /\ res' = [res EXCEPT ![r] = [x EXCEPT !.buf = @ \o Body(r, n)]]
       /\ UNCHANGED <<pool, zip>>

\* startGzip.
WritesFirst(r, n) ==
    LET x == Grown(res[r], n)
    IN /\ x.mode = "undecided" /\ Len(x.buf) + n >= SmallBelow
       /\ \E z \in pool :
            /\ res' = [res EXCEPT ![r] =
                 Commit([x EXCEPT !.mode = "gzip", !.length = FALSE, !.gz = z, !.buf = <<>>], x.code)]
            /\ pool' = pool \ {z}
            /\ zip' = [zip EXCEPT ![z] = [to |-> r, holds |-> x.buf \o Body(r, n)]]

WritesMore(r, n) ==
    LET x == Grown(res[r], n)
    IN /\ x.mode = "gzip" /\ res' = [res EXCEPT ![r] = x]
       /\ zip' = [zip EXCEPT ![x.gz].holds = @ \o Body(r, n)]
       /\ UNCHANGED pool

Writes(r, n) ==
    /\ Serving(r) /\ res[r].written + n <= BodyUnits[r] /\ res[r].kind # "upgrade"
    /\ WritesPlain(r, n) \/ WritesHeld(r, n) \/ WritesFirst(r, n) \/ WritesMore(r, n)

\* The compressor sends what it has when a block is full.
Compresses(z) ==
    /\ zip[z].holds # <<>>
    /\ res' = [res EXCEPT ![zip[z].to] = Emit(@, zip[z].holds, TRUE)]
    /\ zip' = [zip EXCEPT ![z].holds = <<>>] /\ UNCHANGED pool

\* Flush, which the proxy calls after every write of a body of unknown length.
Flushes(r) ==
    /\ Serving(r) /\ res[r].code # "none" /\ res[r].kind \in {"text", "opaque"}
    /\ LET x == [res[r] EXCEPT !.flushed = res[r].written]
           y == IF x.mode = "undecided" THEN PlainNow(x) ELSE x
       IN IF x.mode = "gzip"
          THEN /\ res' = [res EXCEPT ![r] = Emit(x, zip[x.gz].holds, TRUE)]
               /\ zip' = [zip EXCEPT ![x.gz].holds = <<>>]
          ELSE res' = [res EXCEPT ![r] = Commit(y, "implied")] /\ UNCHANGED zip
    /\ UNCHANGED pool

Hijacks(r) ==
    /\ Serving(r) /\ res[r].kind = "upgrade"
    /\ res' = [res EXCEPT ![r].mode = "passthrough", ![r].end = "hijacked"]
    /\ UNCHANGED <<pool, zip>>

-------------------------------------------------------------------------------
(* The end of a response *)

\* finish: the compressor is closed, or what was held back goes out.
Finished(x) ==
    IF x.mode = "gzip" THEN Emit([x EXCEPT !.gz = "none"], zip[x.gz].holds, TRUE)
    ELSE IF x.code # "none" /\ x.mode = "undecided" THEN PlainNow(x) ELSE x

Pools(z) == pool' = pool \cup ({z} \ {"none"}) /\ zip' = [y \in Compressors |-> IF y = z THEN Unused ELSE zip[y]]

\* The handler returns.
HandlerReturns(r) ==
    /\ Serving(r) /\ res[r].kind # "upgrade" /\ Pools(res[r].gz)
    /\ res' = [res EXCEPT ![r] = [Commit(Finished(@), "implied") EXCEPT !.end = "returned"]]

\* It panics, as the proxy does when a backend dies in the middle of a body:
\* finish runs first, and recoverPanics then writes its error to what is there.
Panics(r) ==
    /\ Serving(r) /\ Pools(res[r].gz)
    /\ res' = [res EXCEPT ![r] =
         [Emit(Commit(Finished(@), "failed"), <<"error text">>, FALSE) EXCEPT !.end = "panicked"]]

ResponsesNext ==
    \/ \E r \in Exchanges : \/ SetsStatus(r) \/ Informs(r) \/ Flushes(r) \/ Hijacks(r)
                            \/ HandlerReturns(r) \/ Panics(r)
                            \/ \E n \in 1 .. BodyUnits[r] : Writes(r, n)
    \/ \E z \in Compressors : Compresses(z)

ResponsesSpec == ResponsesInit /\ [][ResponsesNext]_respVars

-------------------------------------------------------------------------------
ResponsesTypeOK ==
    /\ pool \subseteq Compressors /\ \A z \in Compressors : zip[z].to \in Exchanges \cup {"none"}
    /\ \A r \in Exchanges :
        /\ res[r].mode \in {"undecided", "passthrough", "gzip"} /\ res[r].written \in 0 .. BodyUnits[r]
        /\ res[r].gz \in Compressors \cup {"none"}
        /\ res[r].code \in {"none", "early", "own", "implied", "switching"}

\* Whatever order of headers, writes and flushes a handler takes, and whoever
\* else is answered, a client gets the handler's own status and its bytes in
\* order, all in the encoding the headers name, with no stale Content-Length
\* (compress.go:146), everything written by a flush once it returns, and the
\* whole once the handler does; a connection is taken over with its 101 sent, or
\* with nothing sent; unless the handler panicked or an informational response
\* came first.
WireIsTheResponse ==
    \A r \in Exchanges : LET x == res[r] IN x.early \/ x.end = "panicked" \/
        /\ \A i \in DOMAIN x.wire : x.wire[i] = <<<<r, i>>, x.head.gzip>>
        /\ x.head.gzip => ~x.head.length /\ x.kind \in {"text", "sized"}
        /\ x.head.status \in {"none", x.asked} /\ Len(x.wire) >= x.flushed
        /\ x.end = "returned" => Len(x.wire) = x.written /\ x.head.status = x.asked
        /\ x.end = "hijacked" => x.head.status = IF x.asked = "switching" THEN x.asked ELSE "none"
=============================================================================
