------------------------------- MODULE Cassette -------------------------------
(* Cassette files: the recording transport that appends every exchange of a *)
(* run before it hands the response on, the checks on loading one, and the  *)
(* transport that serves it back. A file is its header, its whole lines and *)
(* whether a partly written line follows them.                              *)
EXTENDS Adapters, Sequences

CassetteVersion == 1

NoHeader == [form |-> "none", n |-> 0]
NoBody == [over |-> FALSE, json |-> FALSE, stop |-> "", detail |-> "", arguments |-> TRUE, msg |-> "none"]

(* A round trip that produced no response. *)
NoResponse == [status |-> 0, retryAfter |-> NoHeader, body |-> NoBody, cut |-> TRUE]

NewRecordingTransport(provider, model, maxTokens) ==
    [header |-> [version |-> CassetteVersion, provider |-> provider, model |-> model, maxTokens |-> maxTokens],
     lines |-> << >>, torn |-> FALSE, seq |-> 0, failed |-> FALSE, closed |-> FALSE]

usable(rec) == ~rec.failed /\ ~rec.closed

(* What reaches the file of a trip. The body is read by the recorder, one  *)
(* byte past the adapters' limit and no more.                              *)
Exchange(request, trip) ==
    [seq |-> 0, request |-> request, status |-> trip.status, retryAfter |-> trip.retryAfter,
     body |-> trip.body, error |-> trip.cut]

(* Append one exchange; written is how much of its line the write managed. *)
record(rec, ex, written) ==
    IF ~usable(rec) THEN rec
    ELSE IF written = "whole"
    THEN [rec EXCEPT !.lines = Append(@, [ex EXCEPT !.seq = rec.seq + 1]), !.seq = @ + 1]
    ELSE [rec EXCEPT !.failed = TRUE, !.torn = written = "part"]

(* Mutant: the response is handed on although its exchange was not written. *)
MutServed(rec, trip, written) == trip

(* What the caller of RoundTrip gets once the exchange was or was not      *)
(* written: nothing is handed on that the file does not hold.              *)
Served(rec, trip, written) == IF usable(rec) /\ written = "whole" THEN trip ELSE NoResponse

Close(rec) == [rec EXCEPT !.closed = TRUE]

LoadCassette(file) ==
    /\ file.header.version = CassetteVersion
    /\ file.header.provider # "" /\ file.header.model # ""
    /\ ~file.torn
    /\ \A n \in DOMAIN file.lines :
        /\ file.lines[n].seq = n
        /\ file.lines[n].status = 0 => file.lines[n].error
        /\ file.lines[n].status \in {0} \cup 100..599

CheckRun(file, provider, model) == file.header.provider = provider /\ file.header.model = model

(* The cassette's own transport: the next exchange if it is the one asked  *)
(* for, and otherwise an error that leaves the cursor where it is.         *)
Matches(file, next, request) ==
    /\ next < Len(file.lines)
    /\ file.lines[next + 1].request = request

PlayRoundTrip(file, next, request) ==
    IF ~Matches(file, next, request) THEN NoResponse
    ELSE LET ex == file.lines[next + 1] IN
         IF ex.status = 0 THEN NoResponse
         ELSE [status |-> ex.status, retryAfter |-> ex.retryAfter, body |-> ex.body, cut |-> ex.error]

PlayCursor(file, next, request) == IF Matches(file, next, request) THEN next + 1 ELSE next
===============================================================================
