----------------------- MODULE StorageClientDownload -----------------------
(***************************************************************************)
(* Ranged download through src/src/allmydata/storage/http_client.py:       *)
(* StorageClient.get_version and StorageClientImmutables.read_share_chunk. *)
(*                                                                         *)
(* The caller reads byte ranges of a share; read_share_chunk sends a GET   *)
(* with a Range header and returns the body of a 206 response.  The       *)
(* server is not under src/: it answers a Range request as HTTP does       *)
(* (RFC 7233): the requested range cut to the share, 416 when nothing of   *)
(* it lies in the share, and it may ignore the Range header and send the   *)
(* whole share with 200.  Byte i of the share holds the value i, so a      *)
(* body read from the wrong offset is told apart from the right one.       *)
(***************************************************************************)
EXTENDS Naturals, Sequences

CONSTANTS
    ShareSize,      \* bytes in the stored share
    MaxLength,      \* longest range the caller asks for
    ReadPastEnd     \* whether the caller may ask for bytes beyond the share

VARIABLES
    net,        \* requests in transit
    replies,    \* responses in transit
    pending,    \* requests whose Deferred has not fired
    returned    \* reads that returned to the caller: [req, body]

vars == <<net, replies, pending, returned>>

ShareBytes == [i \in 1 .. ShareSize |-> i - 1]

\* The byte ranges the caller may ask for.
Reads ==
    {rd \in [offset : 0 .. ShareSize, length : 1 .. MaxLength] :
        ReadPastEnd \/ rd.offset + rd.length <= ShareSize}

-----------------------------------------------------------------------------
(* The client.                                                              *)

\* Mutant of RangeHeader: the exclusive end written as the last byte.
RangeHeaderExclusive(offset, length) == <<offset, offset + length>>

\* Range("bytes", [(offset, offset + length)]).to_header(): the
\* half-open range becomes "bytes=first-last" with an inclusive last byte.
RangeHeader(offset, length) == <<offset, offset + length - 1>>

GetVersionMsg == [method |-> "GET", path |-> <<"version">>, range |-> <<>>]

ReadMsg(rd) ==
    [method |-> "GET", path |-> <<"immutable", "share">>,
     range |-> RangeHeader(rd.offset, rd.length), read |-> rd]

Send(m) ==
    /\ m \notin pending
    /\ net' = net \cup {m}
    /\ pending' = pending \cup {m}

Fired(r) ==
    /\ r \in replies
    /\ r.req \in pending
    /\ replies' = replies \ {r}
    /\ pending' = pending \ {r.req}

\* StorageClient.get_version, up to the yield of the GET.
get_version ==
    /\ Send(GetVersionMsg)
    /\ UNCHANGED <<replies, returned>>

\* The continuation of get_version: _decode_cbor yields the version map
\* of a 2xx response and fails otherwise; the caller learns nothing about
\* any share either way.
get_version_returns(r) ==
    /\ r.req = GetVersionMsg
    /\ Fired(r)
    /\ UNCHANGED <<net, returned>>

\* StorageClientImmutables.read_share_chunk, up to the yield of the GET.
read_share_chunk(rd) ==
    /\ Send(ReadMsg(rd))
    /\ UNCHANGED <<replies, returned>>

\* Mutant of ReadAccepted: any 2xx status is taken as the chunk.
ReadAcceptedAny2xx(code) == code > 199 /\ code < 300

\* read_share_chunk returns the body of a PARTIAL_CONTENT response and
\* raises ClientException for any other status.
ReadAccepted(code) == code = 206

\* The continuation of read_share_chunk: the body is returned as it came.
read_share_chunk_returns(r) ==
    /\ r.req # GetVersionMsg
    /\ Fired(r)
    /\ returned' = IF ReadAccepted(r.code)
                     THEN returned \cup {[req |-> r.req.read, body |-> r.body]}
                     ELSE returned
    /\ UNCHANGED net

-----------------------------------------------------------------------------
(* The storage server and the network (spec.md 4.4, 6, 7).                 *)

Reply(m, code, body) ==
    replies' = replies \cup {[req |-> m, code |-> code, body |-> body]}

\* The bytes of the share from first to last inclusive, cut to the share.
Slice(first, last) ==
    SubSeq(ShareBytes, first + 1, IF last < ShareSize THEN last + 1 ELSE ShareSize)

\* GET /v1/immutable/{si}/{share} with "bytes=first-last": 206 with the
\* part of the range inside the share, or 416 if none of it is; or the
\* whole share with 200 by a server that ignores Range.
HandleRead(m) ==
    LET first == m.range[1]
        last == m.range[2]
    IN \/ /\ first < ShareSize
          /\ Reply(m, 206, Slice(first, last))
       \/ /\ first >= ShareSize
          /\ Reply(m, 416, <<>>)
       \/ Reply(m, 200, ShareBytes)

HandleVersion(m) == Reply(m, 200, <<>>)

ServerReceives(m) ==
    /\ m \in net
    /\ net' = net \ {m}
    /\ IF m = GetVersionMsg THEN HandleVersion(m) ELSE HandleRead(m)
    /\ UNCHANGED <<pending, returned>>

\* A connection drops and the call fails with a transport error.
ConnectionLost(m) ==
    /\ m \in pending
    /\ net' = net \ {m}
    /\ replies' = {r \in replies : r.req # m}
    /\ pending' = pending \ {m}
    /\ UNCHANGED returned

-----------------------------------------------------------------------------

Init ==
    /\ net = {}
    /\ replies = {}
    /\ pending = {}
    /\ returned = {}

Next ==
    \/ get_version
    \/ \E rd \in Reads : read_share_chunk(rd)
    \/ \E r \in replies : get_version_returns(r) \/ read_share_chunk_returns(r)
    \/ \E m \in net : ServerReceives(m)
    \/ \E m \in pending : ConnectionLost(m)

Spec == Init /\ [][Next]_vars

-----------------------------------------------------------------------------
(* Properties.                                                              *)

\* A chunk returned by read_share_chunk: at most MaxLength bytes of the share.
Chunk == UNION {[1 .. n -> 0 .. ShareSize - 1] : n \in 0 .. MaxLength}

TypeOK ==
    /\ pending \subseteq {GetVersionMsg} \cup {ReadMsg(rd) : rd \in Reads}
    /\ net \subseteq pending
    /\ returned \subseteq [req : Reads, body : Chunk]

\* spec.md 8.7 and RangeMismatchError: a read that returns gives
\* exactly the bytes asked for, at the offset asked for, whatever status or
\* range the server answered with; anything else must fail the call.
ReadReturnsRequested ==
    \A rt \in returned :
        rt.body = [i \in 1 .. rt.req.length |-> rt.req.offset + i - 1]

=============================================================================
