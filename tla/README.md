# TLA+ models of the Tahoe-LAFS storage client and pidfile guard

This directory holds TLA+ specifications of the parts of this repository
(`src/`) that have state and concurrency, checked with TLC. `spec.md` describes
the storage-client subsystem. Its storage server, upload orchestration and peer
selection are not under `src/`. Where a model needs them as the counterpart of
code that is under `src/`, they are modelled from `spec.md` and marked
`spec_modelled` in `PROJECT.json`.

## 1. Inventory

### Components and their state

| Component | Source | State | Operations |
|---|---|---|---|
| StorageClient request layer | `storage/http_client.py` 56-133 | base URL, swissnum, treq handle (all immutable) | `_url`, `_get_headers`, `_request`, `get_version`, `from_furl` |
| StorageClientImmutables | `storage/http_client.py` 148-303 | none of its own: each call is a Deferred outstanding at the caller | `create`, `write_share_chunk`, `read_share_chunk`, `list_shares` |
| `UploadProgress.required` | `storage/http_client.py` 244-246 | a `RangeMap` (from `collections_extended`, outside `src/`) filled by one `set(True, begin, end)` per required chunk | union only; `src/` never calls missing or is_covered |
| `_decode_cbor`, `UploadProgress`, `ImmutableCreateResult` | `storage/http_client.py` 41-53, 136-146 | value objects | status check, decoding of the body |
| Pidfile guard | `util/pid.py` | the pidfile (absent / PID + start time / a truncated file), the sibling `.lock` FileLock, the PIDs of live processes | `check_pid_process`, `cleanup_pidfile` |
| Listener protocol | `listeners.py` | none (a `Protocol` and a frozen record) | interface only |
| Benchmark fixtures | `benchmarks/conftest.py` | pytest fixtures | test harness |
| Client tests | `test/test_client.py` | tests of `client.Client` (not under `src/`) | `test_permute` pins the peer permutation |
| Storage server (outside `src/`) | spec.md 4.3, 6 | per share: none / uploading / complete, bytes written | POST create, PATCH write, GET list, GET read |
| Upload caller (outside `src/`) | spec.md 3, 5 | the last `UploadProgress` per share, outstanding calls | retry, timeout, resync, restart |

### How the components interact

- The caller calls `StorageClientImmutables`. Each method builds a URL and
  calls `StorageClient._request`. That method adds the `Authorization` header
  (from the swissnum) and one `X-Tahoe-Authorization` header for each secret
  that is not None. Then it yields treq's Deferred.
- When the response arrives, the `@inlineCallbacks` continuation checks the
  status and decodes the CBOR body. It then returns a value to the caller or
  raises `ClientException`.
- Several calls can be outstanding at once, each on its own connection, so
  their responses can come back in any order. A connection can drop before
  the server acts or after it. A caller that times a call out cancels its
  Deferred, but the server may already have acted on the request.
- Node processes share the pidfile and its lock file through the file system.
  The OS hands out and recycles PIDs, and it releases a flock when the process
  holding it dies.

### What is hard

- **Ordering and stale state.** `write_share_chunk` returns the server's
  required ranges as of its own response. When two writes are in flight, an
  older answer can be applied after a newer one.
- **Unreliable delivery, timeouts and retries.** A write that succeeded but
  whose response was lost gets retried. If the share is already complete, the
  retry may meet a server that has closed the bucket. A timed-out request can
  still reach the server.
- **Crash and restart.** After the uploader restarts, requests of its old
  incarnation can still reach the server. For the pidfile, a node can crash at
  any step, including between truncating the pidfile and writing it.
- **Interleaving.** Several nodes start at once and race on one pidfile.
- **PID reuse.** A stale pidfile can name a PID that now belongs to another
  process, or to the new node itself.
- **Boundaries.** Byte ranges are half-open on the wire, in `ContentRange` and
  in `RangeMap`.

### Correctness properties per component

- Upload client with server and caller:
  - A share the caller believes finished is stored in full (`FinishedMeansStored`).
  - The caller's required ranges never omit a byte the server lacks (`RequiredCoversMissing`).
  - The upload completes once faults stop (`UploadCompletes`).
  - The decoded ranges stay inside the share (`TypeOK`).
  - The client implements the upload session of spec.md 4.3, 5 and 8.4:
    progress changes only to what one successful response said, and never
    on a failure or a timeout (`ImplementsUploadAbstract`).
- Pidfile guard:
  - At most one node runs, and the pidfile names it (`SingleInstance`).
  - A stopping node always gets the lock (`CleanupCompletes`).
  - A node is never refused because of its own PID (`RefusedOnlyByOther`).
  - The pidfile is never left unparsable (`PidfileWellFormed`).
- Download: a successful `read_share_chunk` returns exactly the requested
  range (`ReadReturnsRequested`).

## 2. Plan

Modules, in order of importance:

1. `StorageClientUpload`: done. The core upload path of `http_client.py`, with
   the server and the caller from the spec, a lossy and reordering network,
   timeouts and restarts.
2. `PidFile`: done. `pid.py` under concurrent starts, crashes and PID reuse.
3. `StorageClientDownload`: done. `get_version` and `read_share_chunk`
   against a server that answers a Range request as HTTP allows. A violation
   run shows that a read past the end returns short data (line 277).
4. `RangeMap`'s interval list: not modelled. `src/` only unions into it,
   and the library is outside `src/`, so a model of its union and
   complement would check the model, not this repository (section 5).
5. `PeerPermutation`: not modelled (see section 5).
6. `UploadAbstract`: done. The session contract of spec.md 4.3 and 5. It
   is checked as the PROPERTY `ImplementsUploadAbstract` of `upload_faults`
   and `upload_restart`,
   through a refinement mapping in `StorageClientUpload`.
7. `list_shares` with a success status other than 200: done, as a
   violation run.

## 3. Modules

### StorageClientUpload (`StorageClientUpload.tla`, `MCStorageClientUpload.tla`)

Each client method is two actions, split at the `yield` of the
`@inlineCallbacks` generator:

| Code | Request action | Continuation action |
|---|---|---|
| `create` (156-198) | `create` | `create_returns` |
| `write_share_chunk` (200-247) | `write_share_chunk` | `write_share_chunk_returns` |
| `list_shares` (285-303) | `list_shares` | `list_shares_returns` |

Helper operators:

- `request` (87-123) is the set of headers built by `_get_headers` and
  `_request`.
- `decode_cbor_ok` is the status test of `_decode_cbor`.
- `WriteFinished` maps 200 / 201 to `finished` (233-242). Any other status
  raises.
- `UploadProgress` is the record type of the class (136-146).
- `ImmutableCreateResult` is the record `create` returns from the decoded
  body (47-53, 193-198). `create_returns` reads the two share sets from it.
- `DecodeRequired` turns the body's `{begin, end}` list into the set of bytes
  that `RangeMap` covers (244-246).
- `ContentRange` is werkzeug's `ContentRange("bytes", offset, offset +
  len(data)).to_header()` (224-230). The half-open range becomes an inclusive
  `first-last` pair in the PATCH's `content_range` field. The body carries only
  its length.

State:

- `net` and `replies` are the requests and responses in transit.
- `pending` holds the Deferreds that have not fired.
- `progress` is the last `UploadProgress` the caller holds for each share.
- `phase` is the caller's phase: idle, creating or uploading.
- `epoch` is the caller's incarnation.
- `bucket` and `written` are the server's state.
- `faults` counts injected faults.

Data abstraction:

- A share is `ShareSize` bytes.
- A chunk is an `(offset, length)` pair inside the share.
- Byte content is not modelled: every write sends the right bytes. The open
  question of spec.md 9, overlapping writes with different content, is out of
  scope.
- A message is a record of method, path, headers, body and incarnation.
- The server stores a PATCH where its Content-Range says: from `first` to
  `last` inclusive, as RFC 7233 defines the header. A header whose span is
  not the body's length, or that runs past the allocated size, gets 416 and
  nothing is written. The server is outside `src/`, so this check is modelled
  from HTTP, not from code. The mutant that writes the exclusive stop as the
  last byte (`ContentRangeExclusive`) makes every write fail. It is caught
  by `UploadCompletes`.

Environment actions:

- `LoseRequest` and `LoseReply`: a dropped connection.
- `ServerError`: the server answers 500 without acting.
- `Abandon`: the caller's timeout. It is free when the call is really dead
  (its request and response are both gone) and costs a fault when the answer
  was still coming.
- `Restart`: the caller's process restarts. All its connections close; its
  requests already sent stay on the network.
- A response to a call that nobody awaits any more is never delivered. A
  cancelled treq Deferred closes its connection.

Fairness:

- Weak fairness on the caller's `create`.
- Strong fairness on writing each share and on `list_shares`, because both
  are disabled whenever the outstanding-call limit is reached.
- Weak fairness on the server receiving each request, on each response firing
  its Deferred, and on a dead call timing out.
- Faults, premature timeouts and restarts are not fair. They are bounded by
  `MaxFaults` and `MaxRestarts`, so "eventually" means "after the last fault".

Refinement mapping (`Abstract == INSTANCE UploadAbstract WITH ...`):

- `stored` is the server's `written`.
- `answers` is what the responses the caller still awaits will tell it:
  `Told(r)` decodes each response as its continuation does
  (`ImmutableCreateResult`, `WriteFinished`, `DecodeRequired`,
  `ListedShares`). A response that raises tells nothing.
- `session` is `Uploading` when `phase` is uploading and `Created` otherwise.
  A create in flight does not count as a session.
- `view` is `progress`.
- Messages, faults, bucket states and the epoch are hidden. A concrete step
  that changes none of the mapped variables is a stutter of the abstract
  spec.

`ListStatus` is the success status the server gives `GET .../shares`. It is
200 in every run except `upload_list_203`.

### UploadAbstract (`UploadAbstract.tla`)

This module states what an upload session promises its caller (spec.md 4.3,
5 and 8.4), without messages or faults. `answers` holds the successful
answers the server has given that the caller has not yet taken or dropped.
Each answer is progress for some of the shares.

- `Serve`: the server acts on a request. Its coverage only grows, and every
  answer it adds is `Sound` against what it now holds: finished only for a
  share stored in full, and required covering every byte the server lacks.
- `Forget`: answers are dropped unread (a failed, abandoned or lost call).
  Nothing else changes.
- `Open`: a create succeeds, and the session starts from one answer.
- `Learn`: a response is applied, and the caller's progress becomes what
  one answer said for the shares it names. Knowledge may go backwards
  (last-applied-response wins), but progress never changes without an
  answer.
- `Reset`: a restart drops the session, its progress and its answers
  (spec.md 3).

`Serve` and `Forget` relate two states (`answers \subseteq answers'`), so the
module is meant to be checked as a property, not run on its own. It has no
fairness; completion is checked on the concrete module (`UploadCompletes`).

What the refinement adds to the two invariants: they only say that the
progress held is sound, and the server's coverage only grows, so any sound
change passes them. The refinement says where a change may come from.
`upload_faults` catches a failed write that resets the share's progress
(`write_share_chunk_returnsResets`), and `upload_restart` catches a create
that ignores `already_have` (`create_returnsIgnoresHave`). Both leave
progress sound, and both pass the invariants.

### PidFile (`PidFile.tla`, `MCPidFile.tla`)

`check_pid_process` is split into its steps:

- `AcquireLock` / `LockTimeout`: FileLock with `timeout=2`.
- `CheckPidfile`: read the pidfile, parse it, `find_process`, remove a stale
  file. Each `raise` leaves the `with` block and releases the lock.
- `OpenPidfile`: `open("w")` truncates the file.
- `WritePidfile`: the write, then the release of the lock.

`cleanup_pidfile` is `CleanupLock` (which waits for the lock with no timeout)
followed by `CleanupRemove`. `Stop` is the node calling it.

State:

- The step each process is at (`pc`).
- Each process's PID (`pidOf`).
- The owner of each PID (`owner`): a node, an unrelated process `Other`, or
  nobody.
- The pidfile content: `Absent`, `Empty` (truncated) or a PID.
- The lock holder.

The start time is written but never compared, so it is not modelled.

Environment actions: `Launch` (the OS gives a free PID), `Crash` (at any live
step; the OS frees the PID and the flock), and `OtherStarts` / `OtherExits`
(PID reuse).

`Init` may start with a stale pidfile naming any PID, as left by a crash or a
reboot.

Fairness: weak fairness on every step a node takes once it is launched,
because the OS schedules a live process.

- The start's lock wait is fair as `AcquireLock \/ LockTimeout`:
  `FileLock(timeout=2)` returns within two seconds, either holding the lock
  or with `Timeout`.
- Cleanup's `FileLock` has no timeout. It polls until it finds the lock
  free.
- Launching, stopping, crashing and unrelated processes are not fair.

### StorageClientDownload (`StorageClientDownload.tla`, `MCStorageClientDownload.tla`)

- State: `net` (requests in transit), `replies`, `pending` (calls whose
  Deferred has not fired) and `returned` (the chunks `read_share_chunk`
  returned, each with the range it was asked for).
- The client's actions are `get_version` / `get_version_returns` and
  `read_share_chunk` / `read_share_chunk_returns`. Each request action covers
  the code up to the `yield` of `_request`. Its continuation covers the rest.
- `RangeHeader` models what werkzeug's `Range.to_header` does with the
  half-open `(offset, offset + length)`: it writes an inclusive last byte.
- The server is not under `src/`, so it follows HTTP Range semantics:
  - a 206 with the requested range cut to the end of the share;
  - a 416 when the range starts at or past the end;
  - or a 200 with the whole share, from a server that ignores Range.
- A connection can drop at any time (`ConnectionLost`).
- Byte `i` of the share holds the value `i`, so a chunk read from the wrong
  offset differs from the right one.
- No fairness is needed: the properties are safety properties.

## 4. Runs

| Run | Config | Checks | Shows |
|---|---|---|---|
| `upload_faults` | `MCStorageClientUpload.cfg` | TypeOK, FinishedMeansStored, RequiredCoversMissing, ImplementsUploadAbstract, UploadCompletes | With 2 faults and reordered responses, progress stays sound, changes only to what a successful response said, and the upload completes |
| `upload_restart` | `MCStorageClientUpload_restart.cfg` | FinishedMeansStored, RequiredCoversMissing, ImplementsUploadAbstract | A restart, with old requests still arriving, keeps progress sound, and the caller takes over exactly the new create's answer |
| `upload_long_share` | `MCStorageClientUpload_long.cfg` | RequiredCoversMissing, UploadCompletes | With one four-byte share, responses whose required list has a gap in the middle still keep progress sound, and the upload completes |
| `upload_list_203` | `MCStorageClientUpload_list203.cfg` | UploadCompletes (violation) | If the server answers `list_shares` with 203, a success status under spec.md 6, the caller cannot resync and never completes |
| `upload_restart_completes` | `MCStorageClientUpload_restartlive.cfg` | UploadCompletes | After a restart, with old requests still arriving, the upload still completes from what the new create reports |
| `upload_strict_server` | `MCStorageClientUpload_404.cfg` | UploadCompletes | If the server answers 404 to a late write, the caller still finishes through `list_shares` |
| `download_in_range` | `MCStorageClientDownload.cfg` | TypeOK, ReadReturnsRequested | Reads inside the share return exactly the requested bytes, whatever status the server chooses |
| `download_past_end` | `MCStorageClientDownload_pastend.cfg` | ReadReturnsRequested (violation) | A read past the end of the share returns a short body instead of failing |
| `pidfile_single` | `MCPidFile.cfg` | SingleInstance, CleanupCompletes | Three racing nodes: at most one runs, the pidfile names it, cleanup gets the lock |
| `pidfile_own_pid` | `MCPidFile_ownpid.cfg` | RefusedOnlyByOther (violation) | A stale pidfile naming the node's own new PID makes the node refuse itself |
| `pidfile_crash_in_write` | `MCPidFile_crash.cfg` | PidfileWellFormed (violation) | A crash between truncate and write wedges all later starts with InvalidPidFile |

### Bounds

- Two shares of two bytes give three chunks: `[0,1)`, `[1,2)` and `[0,2)`.
  So chunks can overlap, arrive out of order and leave gaps, and a response
  can report a range that is not a prefix.
- With two bytes a share's missing bytes are always one range. The
  `upload_long_share` run therefore uses one share of four bytes (ten
  chunks, one fault). A write of the middle then leaves two required
  ranges in one response, which exercises the loop over `body["required"]`
  (245-246). A mutant that keeps only the last range is caught there and
  not by the two-byte runs. Four bytes with two faults took over six
  minutes, so that run keeps one fault.
- `MaxPending = 2` lets two calls race, so their responses can overtake each
  other.
- `MaxFaults = 2` allows a lost response followed by a retry that also fails,
  or a loss combined with a premature timeout.
- Liveness with a restart is checked with no faults
  (`upload_restart_completes`, about 110k states). Together with one fault
  it ran over ten minutes.
- The restart run uses one restart and one fault. Its state space, about
  1M states, is the largest.
- The download runs use a three-byte share and ranges of one or two bytes.
  That gives reads at the start, the middle and the end, and (in the
  past-end run) ranges that cross the end or start on it.
- The pidfile runs use three nodes and two PIDs. PIDs must be reused, by nodes
  and by `Other`, and a third node can start after one has gone.

### Findings

The pidfile violation runs report defects in `pid.py`; the download
violation run reports a divergence from the spec in `http_client.py`. The details are under
"findings" in `PROJECT.json`.

- **Line 76.** The PID read from the pidfile is never compared with
  `os.getpid()`, and the start time is never compared either. A node can
  refuse to start because of itself. This happens in containers, where the
  node is always PID 1.
- **Line 93.** The pidfile is written in place. A crash after `open("w")`
  leaves an empty file, and every later start fails with `InvalidPidFile`.
- **`http_client.py` line 297.** `list_shares` accepts only 200. spec.md 6
  gives 2xx as its success codes, and `_decode_cbor`, which it calls, accepts
  any 2xx. Against a server that answers 203, a caller that does not hold
  the 201 for a share, and whose retries get 404, never learns that the
  share is done. That happens when the completing write's response is
  lost, and also with no fault at all, when a stale 200 of an earlier write
  is applied after the 201.
- **`http_client.py` line 277.** `read_share_chunk` returns the body of any
  206 response without checking its length. Reading `[2,4)` of a three-byte
  share returns one byte. spec.md 8.7 says this must raise
  `RangeMismatchError`.

## 5. Not modelled

- `listeners.py`: an interface with no behaviour.
- `benchmarks/conftest.py`: test harness and I/O.
- `test_client.py`: tests of `client.Client`, which is not under `src/`.
- `StorageClient.from_furl`: it computes the swissnum and the certificate hash
  but returns nothing (a caller gets None, not a client). It has no state to
  model.
- Peer permutation (spec.md 4.1): its code is not under `src/`. The only
  trace of it there is `test_permute`, which pins the orders that the hash of
  `client.Client` (not under `src/`) produces. TLC cannot compute that hash, and a ranking modelled from the
  spec alone would check nothing of this repository.
- `RangeMap` internals: `collections_extended` is outside `src/`, and
  `src/` only unions into a fresh `RangeMap` (244-246); it never calls
  `missing` or `is_covered`. The model keeps the set of bytes the map covers
  (`DecodeRequired`). An interval-list model of the library, written from
  spec.md 4.5, would hold whatever this repository does, so there is none.
- The CBOR and base64 encodings are modelled by what they carry: the decoded
  records and the secret values.
- URL building (`_url`, `_encode_si`) is a path made of an operation and a
  share number.
- Leases, mutable shares, and conflicting re-writes on the server.
- `pid.py` 1-47: imports, the three exception classes (an exception is the
  `Exits` outcome it leads to) and `_pidfile_to_lockpath`, which the model's
  single `lock` stands for.
- The storage server's handling of Content-Range is taken from HTTP (RFC
  7233), not from code: the server is outside `src/`. The client's side of it,
  `ContentRange(...).to_header()`, is modelled from the code.

With these, every operation under `src/` that changes state is an action of a
module. The code that remains is interfaces, value types, I/O and formatting.
