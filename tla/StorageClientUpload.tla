------------------------ MODULE StorageClientUpload ------------------------
(***************************************************************************)
(* Upload of an immutable share set through the HTTP storage client of    *)
(* src/src/allmydata/storage/http_client.py (StorageClient._request,       *)
(* StorageClientImmutables.create / write_share_chunk / list_shares).      *)
(*                                                                         *)
(* Every client call is split in two actions, as the @inlineCallbacks      *)
(* generators are: the request it yields to treq, and the continuation     *)
(* that runs when the response fires.  Between them the network may lose  *)
(* the request or the response, the server may fail, and the caller may   *)
(* time the call out, retry it or restart.  The storage server and the    *)
(* uploading caller are not under src/: they are modelled from spec.md     *)
(* (sections 4.3, 5, 6, 7).                                                *)
(***************************************************************************)
EXTENDS Naturals, FiniteSets

CONSTANTS
    Shares,           \* share numbers passed to create()
    ShareSize,        \* allocated_size: bytes per share
    MaxPending,       \* calls the caller keeps outstanding at once
    MaxFaults,        \* lost messages, server errors and premature timeouts
    MaxRestarts,      \* restarts of the uploading process
    LateWriteStatus,  \* server's status for a PATCH to a completed share
    ListStatus,       \* server's success status for GET .../shares
    Swissnum,         \* the bearer token of the storage service
    None              \* the Python None

ASSUME LateWriteStatus \in {201, 404}
ASSUME ListStatus \in 200 .. 299

VARIABLES
    net,        \* requests sent and not yet received by the server
    replies,    \* responses sent and not yet received by the client
    bucket,     \* server: share -> "none" | "uploading" | "complete"
    written,    \* server: share -> bytes it stores
    phase,      \* caller: "idle" | "creating" | "uploading"
    progress,   \* caller: share -> the last UploadProgress it was given
    pending,    \* caller: requests whose Deferred has not fired
    epoch,      \* caller: incarnation of the uploading process
    faults      \* faults the environment has injected so far

vars == <<net, replies, bucket, written, phase, progress, pending, epoch, faults>>
serverVars == <<bucket, written>>
callerVars == <<phase, progress, pending, epoch>>

Bytes == 0 .. ShareSize - 1

\* A chunk is a byte range [offset, offset + length) of one share.
Chunks == {c \in [offset : Bytes, length : 1 .. ShareSize] :
              c.offset + c.length <= ShareSize}
ChunkBytes(c) == c.offset .. c.offset + c.length - 1

\* UploadProgress: whether the share is finished, and the bytes of its
\* required RangeMap, abstracted to the set of bytes it covers.
UploadProgress == [finished : BOOLEAN, required : SUBSET Bytes]

\* The three secrets of one upload, as the caller holds them.
RenewSecret == "renew"
CancelSecret == "cancel"
UploadSecret == "upload"

-----------------------------------------------------------------------------
(* The client: StorageClient and StorageClientImmutables.                  *)

\* Secrets enum order of the loop in StorageClient._request.
SecretRoles == <<"lease-renew-secret", "lease-cancel-secret", "upload-secret">>

\* Mutant of request: the loop breaks at the first None secret instead of
\* continuing, so a call without lease secrets carries no secret at all.
requestBreaksAtNone(secrets) ==
    [authorization |-> Swissnum,
     x_tahoe_authorization |->
        {<<SecretRoles[i], secrets[i]>> :
            i \in {j \in 1 .. 3 : \A k \in 1 .. j : secrets[k] # None}}]

\* StorageClient._get_headers and StorageClient._request: the Authorization
\* header from the swissnum, then one X-Tahoe-Authorization header per
\* secret that is not None, tagged with its role.
request(secrets) ==
    [authorization |-> Swissnum,
     x_tahoe_authorization |->
        {<<SecretRoles[i], secrets[i]>> : i \in {j \in 1 .. 3 : secrets[j] # None}}]

\* _decode_cbor: only a 2xx response has a body to decode.
decode_cbor_ok(code) == code > 199 /\ code < 300

\* Mutants of DecodeRequired: ranges read as closed intervals, and ranges
\* read from one past their begin.
DecodeRequiredClosed(ranges) == UNION {r.begin .. r.end : r \in ranges}
DecodeRequiredLate(ranges) == UNION {r.begin + 1 .. r.end - 1 : r \in ranges}

\* Mutant of DecodeRequired: each remaining.set replaces the map instead of
\* adding to it, so only the last (highest) range is kept.
DecodeRequiredLast(ranges) ==
    IF ranges = {} THEN {}
    ELSE LET last == CHOOSE r \in ranges : \A q \in ranges : q.begin <= r.begin
         IN last.begin .. last.end - 1

\* The body of write_share_chunk's response, {"required": [{begin, end}]},
\* read into a RangeMap of half-open ranges.
DecodeRequired(ranges) == UNION {r.begin .. r.end - 1 : r \in ranges}

\* Mutant of WriteFinished: http.OK and http.CREATED swapped.
WriteFinishedSwapped == [code \in {200, 201} |-> code = 200]

\* write_share_chunk: http.OK means unfinished, http.CREATED finished;
\* any other status raises ClientException.
WriteFinished == [code \in {200, 201} |-> code = 201]

CreateMsg(e) ==
    [method |-> "POST", path |-> <<"immutable">>,
     headers |-> request(<<RenewSecret, CancelSecret, UploadSecret>>),
     body |-> [share_numbers |-> Shares, allocated_size |-> ShareSize],
     epoch |-> e]

\* Mutant of ContentRange: the exclusive stop written as the last byte.
ContentRangeExclusive(start, stop) == <<start, stop>>

\* ContentRange("bytes", start, stop).to_header(): the half-open range
\* becomes "bytes first-last/*" with an inclusive last byte.
ContentRange(start, stop) == <<start, stop - 1>>

\* The PATCH carries len(data) bytes and the Content-Range they belong at.
WriteMsg(s, c, e) ==
    [method |-> "PATCH", path |-> <<"immutable", s>>,
     headers |-> request(<<None, None, UploadSecret>>),
     content_range |-> ContentRange(c.offset, c.offset + c.length),
     body |-> [length |-> c.length], epoch |-> e]

ListMsg(e) ==
    [method |-> "GET", path |-> <<"immutable", "shares">>,
     headers |-> request(<<None, None, None>>),
     body |-> [query |-> "shares"], epoch |-> e]

Requests ==
    {CreateMsg(e) : e \in 0 .. MaxRestarts} \cup {ListMsg(e) : e \in 0 .. MaxRestarts}
    \cup {WriteMsg(s, c, e) : s \in Shares, c \in Chunks, e \in 0 .. MaxRestarts}

Send(m) ==
    /\ Cardinality(pending) < MaxPending
    /\ m \notin pending
    /\ net' = net \cup {m}
    /\ pending' = pending \cup {m}

\* A response whose Deferred is still waiting fires it.
Fires(r) == r \in replies /\ r.req \in pending

Fired(r) ==
    /\ replies' = replies \ {r}
    /\ pending' = pending \ {r.req}

\* StorageClientImmutables.create, up to the yield of the POST.
create ==
    /\ phase = "idle"
    /\ Send(CreateMsg(epoch))
    /\ phase' = "creating"
    /\ UNCHANGED <<replies, serverVars, progress, epoch, faults>>

\* ImmutableCreateResult(already_have=decoded["already-have"],
\* allocated=decoded["allocated"]): the two share sets of create's answer.
ImmutableCreateResult(decoded) ==
    [already_have |-> decoded.already_have, allocated |-> decoded.allocated]

\* Mutant of create_returns: already_have is ignored and every share of the
\* answer starts from nothing.
create_returnsIgnoresHave(r) ==
    /\ Fires(r)
    /\ r.req.method = "POST"
    /\ Fired(r)
    /\ IF decode_cbor_ok(r.code)
         THEN LET result == ImmutableCreateResult(r.body) IN
              /\ phase' = "uploading"
              /\ progress' =
                   [s \in Shares |->
                      IF s \in result.already_have \cup result.allocated
                        THEN [finished |-> FALSE, required |-> Bytes]
                        ELSE progress[s]]
         ELSE /\ phase' = "idle"
              /\ UNCHANGED progress
    /\ UNCHANGED <<net, serverVars, epoch, faults>>

\* The continuation of create: an ImmutableCreateResult or a failure.  The
\* caller marks already_have shares finished and starts the allocated ones
\* from nothing, since it has no other knowledge of what the server holds.
create_returns(r) ==
    /\ Fires(r)
    /\ r.req.method = "POST"
    /\ Fired(r)
    /\ IF decode_cbor_ok(r.code)
         THEN LET result == ImmutableCreateResult(r.body) IN
              /\ phase' = "uploading"
              /\ progress' =
                   [s \in Shares |->
                      IF s \in result.already_have
                        THEN [finished |-> TRUE, required |-> {}]
                      ELSE IF s \in result.allocated
                        THEN [finished |-> FALSE, required |-> Bytes]
                      ELSE progress[s]]
         ELSE /\ phase' = "idle"
              /\ UNCHANGED progress
    /\ UNCHANGED <<net, serverVars, epoch, faults>>

\* StorageClientImmutables.write_share_chunk, up to the yield of the PATCH.
\* The caller writes a chunk of a share it does not know to be finished,
\* one that covers a byte its progress still lists as required.
write_share_chunk(s, c) ==
    /\ phase = "uploading"
    /\ ~progress[s].finished
    /\ ChunkBytes(c) \cap progress[s].required # {}
    /\ Send(WriteMsg(s, c, epoch))
    /\ UNCHANGED <<replies, serverVars, phase, progress, epoch, faults>>

\* Mutant of write_share_chunk_returns: a ClientException resets the
\* share's progress to "everything required".
write_share_chunk_returnsResets(r) ==
    /\ Fires(r)
    /\ r.req.method = "PATCH"
    /\ Fired(r)
    /\ LET s == r.req.path[2] IN
         IF r.code \in DOMAIN WriteFinished
           THEN progress' = [progress EXCEPT ![s] =
                               [finished |-> WriteFinished[r.code],
                                required |-> DecodeRequired(r.body.required)]]
           ELSE progress' = [progress EXCEPT ![s] =
                               [finished |-> FALSE, required |-> Bytes]]
    /\ UNCHANGED <<net, serverVars, phase, epoch, faults>>

\* The continuation of write_share_chunk.  A 200 or 201 yields an
\* UploadProgress that the caller keeps for the share; a ClientException
\* leaves the caller's progress as it was.
write_share_chunk_returns(r) ==
    /\ Fires(r)
    /\ r.req.method = "PATCH"
    /\ Fired(r)
    /\ LET s == r.req.path[2] IN
         IF r.code \in DOMAIN WriteFinished
           THEN progress' = [progress EXCEPT ![s] =
                               [finished |-> WriteFinished[r.code],
                                required |-> DecodeRequired(r.body.required)]]
           ELSE UNCHANGED progress
    /\ UNCHANGED <<net, serverVars, phase, epoch, faults>>

\* StorageClientImmutables.list_shares, up to the yield of the GET.  The
\* caller asks while some share is not known to be finished.
list_shares ==
    /\ phase = "uploading"
    /\ \E s \in Shares : ~progress[s].finished
    /\ Send(ListMsg(epoch))
    /\ UNCHANGED <<replies, serverVars, phase, progress, epoch, faults>>

\* Mutant of ListedShares: the status compared with http.CREATED.
ListedSharesCreated(r) == IF r.code = 201 THEN r.body.shares ELSE {}

\* list_shares: only http.OK yields set(body); any other status raises
\* ClientException, which lists nothing.
ListedShares(r) == IF r.code = 200 THEN r.body.shares ELSE {}

\* The continuation of list_shares: the caller marks each listed share
\* finished.
list_shares_returns(r) ==
    /\ Fires(r)
    /\ r.req.method = "GET"
    /\ Fired(r)
    /\ progress' = [s \in Shares |->
                      IF s \in ListedShares(r)
                        THEN [finished |-> TRUE, required |-> {}]
                        ELSE progress[s]]
    /\ UNCHANGED <<net, serverVars, phase, epoch, faults>>

-----------------------------------------------------------------------------
(* The caller's timeouts and restarts (spec.md sections 3 and 5).          *)

\* The caller gives up on a call.  A timeout on a call whose request and
\* response are both gone is how the caller learns of a lost message; one
\* that fires while the answer is still on its way is a fault.
Abandon(m) ==
    /\ m \in pending
    /\ LET inFlight == m \in net \/ \E r \in replies : r.req = m IN
         /\ inFlight => faults < MaxFaults
         /\ faults' = IF inFlight THEN faults + 1 ELSE faults
    /\ pending' = pending \ {m}
    /\ replies' = {r \in replies : r.req # m}
    /\ phase' = IF m.method = "POST" THEN "idle" ELSE phase
    /\ UNCHANGED <<net, serverVars, progress, epoch>>

\* The uploading process restarts: its Deferreds and progress are gone and
\* it starts again with create, whose answer the server derives from what
\* it stores.
Restart ==
    /\ epoch < MaxRestarts
    /\ epoch' = epoch + 1
    /\ phase' = "idle"
    /\ pending' = {}
    /\ progress' = [s \in Shares |-> [finished |-> FALSE, required |-> Bytes]]
    /\ replies' = {}
    /\ UNCHANGED <<net, serverVars, faults>>

-----------------------------------------------------------------------------
(* The storage server (spec.md sections 4.3 and 6).                        *)

\* The response travels back on the call's connection; when nobody waits on
\* it any more (the call timed out, the caller restarted) it is never read.
Reply(m, code, body) ==
    replies' = IF m \in pending
                 THEN replies \cup {[req |-> m, code |-> code, body |-> body]}
                 ELSE replies

Authorized(m, roles) ==
    /\ m.headers.authorization = Swissnum
    /\ \A role \in roles : \E kv \in m.headers.x_tahoe_authorization : kv[1] = role

\* The maximal half-open ranges of a set of bytes, as the server lists them.
Ranges(S) ==
    {rg \in [begin : Bytes, end : 1 .. ShareSize] :
        /\ rg.begin < rg.end
        /\ rg.begin .. rg.end - 1 \subseteq S
        /\ rg.begin - 1 \notin S
        /\ rg.end \notin S}

HandleCreate(m) ==
    /\ m.method = "POST"
    /\ IF Authorized(m, {SecretRoles[1], SecretRoles[2], SecretRoles[3]})
         THEN LET have == {s \in m.body.share_numbers : bucket[s] = "complete"}
                  alloc == m.body.share_numbers \ have
              IN /\ bucket' = [s \in Shares |->
                                 IF s \in alloc THEN "uploading" ELSE bucket[s]]
                 /\ Reply(m, 201, [already_have |-> have, allocated |-> alloc])
         ELSE /\ Reply(m, 401, [error |-> 401])
              /\ UNCHANGED bucket
    /\ UNCHANGED written

\* PATCH /v1/immutable/{si}/{share}: the bytes go where the Content-Range
\* header says (first to last inclusive, RFC 7233); a header whose span is
\* not the body's length, or that runs past the allocated size, is refused
\* with 416 and nothing is written.
HandleWrite(m) ==
    /\ m.method = "PATCH"
    /\ LET s == m.path[2]
           first == m.content_range[1]
           last == m.content_range[2]
           now == written[s] \cup first .. last
       IN CASE ~Authorized(m, {SecretRoles[3]}) ->
                   Reply(m, 401, [error |-> 401]) /\ UNCHANGED serverVars
            [] bucket[s] = "none" ->
                   Reply(m, 404, [error |-> 404]) /\ UNCHANGED serverVars
            [] last - first + 1 # m.body.length \/ last >= ShareSize ->
                   Reply(m, 416, [error |-> 416]) /\ UNCHANGED serverVars
            [] bucket[s] = "complete" ->
                   Reply(m, LateWriteStatus, [required |-> {}]) /\ UNCHANGED serverVars
            [] OTHER ->
                   /\ written' = [written EXCEPT ![s] = now]
                   /\ bucket' = [bucket EXCEPT ![s] =
                                   IF now = Bytes THEN "complete" ELSE "uploading"]
                   /\ Reply(m, IF now = Bytes THEN 201 ELSE 200,
                             [required |-> Ranges(Bytes \ now)])

HandleList(m) ==
    /\ m.method = "GET"
    /\ Reply(m, ListStatus, [shares |-> {s \in Shares : bucket[s] = "complete"}])
    /\ UNCHANGED serverVars

\* The server takes a request off the network and answers it.
ServerReceives(m) ==
    /\ m \in net
    /\ net' = net \ {m}
    /\ HandleCreate(m) \/ HandleWrite(m) \/ HandleList(m)
    /\ UNCHANGED <<callerVars, faults>>

\* The server fails a request without acting on it (an HTTP 500).
ServerError(m) ==
    /\ m \in net
    /\ faults < MaxFaults
    /\ net' = net \ {m}
    /\ Reply(m, 500, [error |-> 500])
    /\ faults' = faults + 1
    /\ UNCHANGED <<serverVars, callerVars>>

\* A connection drops: a request or a response is lost (a TransportError).
LoseRequest(m) ==
    /\ m \in net
    /\ faults < MaxFaults
    /\ net' = net \ {m}
    /\ faults' = faults + 1
    /\ UNCHANGED <<replies, serverVars, callerVars>>

LoseReply(r) ==
    /\ r \in replies
    /\ faults < MaxFaults
    /\ replies' = replies \ {r}
    /\ faults' = faults + 1
    /\ UNCHANGED <<net, serverVars, callerVars>>

-----------------------------------------------------------------------------

Init ==
    /\ net = {}
    /\ replies = {}
    /\ bucket = [s \in Shares |-> "none"]
    /\ written = [s \in Shares |-> {}]
    /\ phase = "idle"
    /\ progress = [s \in Shares |-> [finished |-> FALSE, required |-> Bytes]]
    /\ pending = {}
    /\ epoch = 0
    /\ faults = 0

ClientCalls ==
    \/ create
    \/ \E s \in Shares, c \in Chunks : write_share_chunk(s, c)
    \/ list_shares

Returns(r) ==
    \/ create_returns(r)
    \/ write_share_chunk_returns(r)
    \/ list_shares_returns(r)

Next ==
    \/ ClientCalls
    \/ \E r \in replies : Returns(r)
    \/ \E m \in pending : Abandon(m)
    \/ Restart
    \/ \E m \in net : ServerReceives(m) \/ ServerError(m) \/ LoseRequest(m)
    \/ \E r \in replies : LoseReply(r)

\* The caller keeps calling, the server keeps serving, the reactor fires
\* every Deferred whose response arrived, and a call whose messages are
\* lost eventually times out.  Faults, premature timeouts and restarts are
\* not fair: they may happen, never must.
Fairness ==
    /\ WF_vars(create)
    /\ \A s \in Shares : SF_vars(\E c \in Chunks : write_share_chunk(s, c))
    /\ SF_vars(list_shares)
    /\ \A m \in Requests :
          /\ WF_vars(ServerReceives(m))
          /\ WF_vars(\E r \in replies : r.req = m /\ Returns(r))
    /\ WF_vars(\E m \in pending : Abandon(m) /\ faults' = faults)

Spec == Init /\ [][Next]_vars /\ Fairness

-----------------------------------------------------------------------------
(* Properties.                                                              *)

TypeOK ==
    /\ bucket \in [Shares -> {"none", "uploading", "complete"}]
    /\ written \in [Shares -> SUBSET Bytes]
    /\ phase \in {"idle", "creating", "uploading"}
    /\ progress \in [Shares -> UploadProgress]
    /\ pending \subseteq Requests
    /\ Cardinality(pending) <= MaxPending
    /\ epoch \in 0 .. MaxRestarts
    /\ faults \in 0 .. MaxFaults

\* A share the caller was told is finished (a 201 from write_share_chunk,
\* already_have from create, or a listing from list_shares) is stored in
\* full by the server, however responses were lost, reordered or answered
\* to an earlier incarnation of the caller.
FinishedMeansStored ==
    \A s \in Shares :
        phase = "uploading" /\ progress[s].finished => written[s] = Bytes

\* The caller's progress never drops a byte the server still needs: every
\* byte missing on the server is in the share's required ranges unless the
\* share is finished.  Stale responses may make the caller resend bytes
\* the server has, never skip bytes it lacks.
RequiredCoversMissing ==
    \A s \in Shares :
        phase = "uploading" /\ ~progress[s].finished =>
            Bytes \ written[s] \subseteq progress[s].required

Done == [finished |-> TRUE, required |-> {}]
Fresh == [finished |-> FALSE, required |-> Bytes]

\* What response r, once its Deferred fires, tells the caller: progress
\* for each share it speaks of, decoded as create, write_share_chunk and
\* list_shares decode it.  A response that raises tells nothing.
Told(r) ==
    CASE r.req.method = "POST" /\ decode_cbor_ok(r.code) ->
           LET res == ImmutableCreateResult(r.body) IN
           [s \in res.already_have \cup res.allocated |->
               IF s \in res.already_have THEN Done ELSE Fresh]
      [] r.req.method = "PATCH" /\ r.code \in DOMAIN WriteFinished ->
           [s \in {r.req.path[2]} |->
               [finished |-> WriteFinished[r.code],
                required |-> DecodeRequired(r.body.required)]]
      [] r.req.method = "GET" -> [s \in ListedShares(r) |-> Done]
      [] OTHER -> <<>>

\* The refinement mapping: the server's stored bytes are the abstract
\* coverage; the answers are what the responses awaited by the caller
\* tell; the caller's phase is the session (a create in flight is still
\* Created) and its progress the view.  Messages, faults, the bucket states
\* and the epoch are hidden.
Abstract == INSTANCE UploadAbstract WITH
    stored <- written,
    answers <- {Told(r) : r \in replies} \ {<<>>},
    session <- IF phase = "uploading" THEN "Uploading" ELSE "Created",
    view <- progress

\* The client, under every loss, reordering, timeout and restart, implements
\* the session of spec.md 4.3, 5 and 8.4: the caller's progress changes
\* only to what one successful response of create, write_share_chunk or
\* list_shares said (or back to nothing on a restart), each such response
\* was sound when the server gave it, and a failed, abandoned or lost call
\* leaves progress as it was.
ImplementsUploadAbstract == Abstract!Spec

\* Once the faults stop, the upload completes: the caller comes to know
\* every share as finished.
UploadCompletes ==
    <>[](phase = "uploading" /\ \A s \in Shares : progress[s].finished)

=============================================================================
