# libksi in TLA+

This directory is a verification project for libksi 3.2.2.0, the client library of the KSI
signature service that the repository packages for rsyslog
(`src/libksi0/libksi-3.2.2.0/src/ksi`, about 19 000 lines of C with the vendored URL parser).
The rest of the repository is packaging: `debian/` directories, build and upload scripts, and no
other program. File names below are relative to `src/libksi0/libksi-3.2.2.0/src/ksi`.

`PROJECT.json` lists the components, runs, mutants, hazards, findings and theorems, and maps
every definition to the lines it models.

## 1. The system

libksi makes, stores, extends and verifies signatures. A signature holds *aggregation hash
chains* from a document's hash to the root of a round, a *calendar hash chain* from that root to a
published root, and at most one anchor: a *calendar authentication record* (a PKI signature on the
calendar root) or a *publication record*. The library is called from one thread per context,
everything is synchronous, nothing is persisted. What is hard is less parallelism, which only the
global counts of the contexts meet, than long-lived objects: results, caches, buffers and handles that one call leaves for the next, two
representations of one object, and errors half way.

| component | state it keeps | operations | talks to | what is hard | what makes it correct |
|---|---|---|---|---|---|
| Signature verification (`signature.c`, `verification.c`) | in each signature: steps performed and failed, a log of 32, level, document hash, publication, borrowed publications file | `verify`, `verifyOnline`, `verifyDataHash`, `verifyWithPublication`, the policy engine | publications file of the context, extender, hash chains | the result outlives the call and only some calls reset it; alternatives share one result | OK means an anchor confirms a consistent signature; failure has a cause; the log fits |
| Signature object (`signature.c`) | fields *and* a base TLV | parse, create, clone, `extendTo`, `extend`, `replaceCalendarChain`, `replacePublicationRecord` | aggregator, extender, template engine | each change must reach both representations, also when it fails half way | what is serialized parses back to the same object; an extension changes what it should and nothing else |
| Hash chains (`hashchain.c`) | loop state | `aggregateChain`, `calculateCalendarAggregationTime` | hasher | integer widths, a hasher that is reset and not reopened | the loops compute what the chain defines |
| Hashing, HMAC, names (`hash.c`, `hash_openssl.c`, `hmac.c`, `KSI_Signature_getSignerIdentity`) | the open hasher | open, reset, add, close; `KSI_HMAC_create`; `parseMeta` | chains, PDUs | one hasher closed and used again; lengths that a hash only claims; a buffer sized beforehand | the HMAC is the standard's, the identity is all names in order |
| Values (`types_base.c`, `types.c`) | none that counts | `fromTlv`, `toTlv` of integers, strings, octets, imprints | TLV codec | leading zeros, zero, UTF-8 cut short | what is read is written again as it was |
| TLV templates (`tlv_template.c`) | loop state, the object | `extractGenerator`, `construct`, copy | every type with a table | elements in any order, groups, flags, errors that are pushed and forgotten | a copy is a copy; nothing malformed is accepted or sent |
| Network (`net.c`, `net_uri.c`, `net_http*.c`, `net_tcp.c`) | two accounts per transport, the transport of each service, handles, one libcurl handle | setters, send, receive on demand, free | servers, template engine, HMAC | handles share the libcurl handle; failed transfers and retries; reconfiguration in between | an answer is to its own request, from its own address, under its own key |
| Publications file (`publicationsfile.c`, `base.c`) | parsed file, cached for good by the context | receive, parse, verify, search | network, trust store, verification | order of elements, offsets, searches over unordered lists | nothing is lost, a genuine file verifies, a search finds the next record |
| Publication strings (`publicationsfile.c`, `base32.c`, `crc32.c`) | none | `toBase32`, `fromBase32` | searches | five bits in eight, padding, a checksum in the last bytes | a right string is taken, one with a slip is not |
| Trust store (`pkitruststore_openssl.c`, `base.c`) | roots and lookups, the address of the signer | new, add files and directories, verify | publications file | set again between download and verification | a file verifies just if its signer is the one trusted now |
| Context (`base.c`) | ring of 16 errors, global initialisers and their process-wide counts, owned objects | new, free, push/clear errors, register globals, exchange provider or file | everything | contexts of several threads share unguarded counts; ring wrap, order of clean-up, dangling provider | the libraries a context needs are there as long as it lives; the base error is the first one; nothing is freed twice or lost |
| List (`list.c`) | array, size and count | append, insert, remove, replace, sort | every list type | growth, shifts, stale slots | behaves as a sequence |
| TLV codec (`tlv.c`, `io.c`) | for each TLV a header, a payload and the memory it owns or points into, nested TLVs, a reference count | parse, read, cast, append, replace, remove, set, clone, serialize, free | templates, values | nested TLVs share one buffer that is written in place; two headers | bytes are read back as written, nothing points into freed memory, no reference is lost |
| Logging, compatibility, vendored URL parser | | wording, C library differences | | | (not modelled) |

The composition: `Network` delivers PDUs that `TlvTemplate` turns into objects; `SignatureObject`
is made from such an object and holds the chains `HashChain` computes on; `Verification` walks the
signature, asks the `PublicationsFile` the context keeps and, through `Network`, the extender. The
modules meet at values: `Verification` takes the outcome of a chain's computation from the data of
the chain (`calcTime`, `root`, `aggr`), which `HashChain` shows to be a function of the links;
`SignatureObject` and `TlvTemplate` take a TLV as a sequence of elements, which `Tlv` shows to be
what its bytes say; `Network` takes an HMAC as the key it was made with, which `Hashing` computes.

## 2. The modules

| module | models | state ↔ code | one step is |
|---|---|---|---|
| `Verification` | the engine and all verifying calls on one signature | `stepsPerformed` … `aggregationHash` are the fields of `KSI_VerificationResult`; `policy`, `alt`, `pos` the loops of `KSI_Signature_verifyPolicy`; `ctxFile` is `ctx->publicationsFile`; `confirmed` is history | one step function, or the end of an alternative, or an API call |
| `SignatureObject` | signature objects in handles | `objs[h]` has the fields and `tlv`, the base TLV as a sequence of elements | one API call |
| `HashChain` | the loops of `hashchain.c`, and as calls of one step an HMAC, a signer identity, the conversion of a value | `job` is the call's arguments, `done` the loop index, `level`, `algo`, `hsr`, `hsh`, `time`, `span` the locals, `output` the text or bytes handed out | one link, or one call |
| `Hashing` | the hasher, HMAC, metahashes | operators; a hasher is its algorithm, what it was fed with since it was opened, and whether it is open | |
| `Values` | integers, strings, octets and imprints as payloads | operators on sequences of bytes or of classes of bytes | |
| `Tlv` | the TLV objects and their memory | `node[t]` is `KSI_TLV_st` with its list of nested TLVs, `mem[t]` the buffer it owns, `held` the references of the client, `stream` the reader | one API call |
| `List` | `list.c` | operators: a list is its array, with the slots behind the count | |
| `Forest` | what the nested lists promise | abstract: a sequence for each TLV | one call |
| `TlvTemplate` | the loops of `tlv_template.c` | `tmpl` the template, `tlv` the elements, `start`, `hit` the locals, `obj` the object | one element read or one slot written |
| `Network` | clients, handles and transfers | `account` is url/user/pass per client and service, `chosen` is `pExtendClient`/`pAggregationClient`, `handles[h]` is `KSI_RequestHandle` with `raw` of the curl context, `curl` the options of the shared handle; `wanted` and `cut` are history | one API call with its transfer |
| `PublicationsFile` | receive, verify, search, the trust store | `file` is the parsed file of the context, `content` what it was parsed from, `trust` the roots and the address of the signer, `out` the caller's pointer | one API call |
| `PublicationString` | publication strings | operators on bits, bytes and characters | |
| `Context` | the contexts of a process, each used by a thread | `ctx[c]` is the `KSI_CTX`; `op`, `step`, `lib`, `pos`, `reg` say where its thread is in `KSI_CTX_new`, `KSI_CTX_free` or the making of a client; `initCount` are the static counts; `libcurl`, `digests`, `handles` are the state of libcurl and OpenSSL | one access of shared state, or an API call |
| `ErrorLog` | what a context promises of its error trace | abstract: the newest errors, their number, the base error | one call |
| `Selection` | the elements of a list with a property, in their order | operators, in a form that can be reasoned about | |
| `SelectionProofs` | induction, recursive functions over positions, lemmas on selections | | |
| `PduProofs` | theorems on `Network` and on `TlvTemplate`, the two sides of a PDU | | |
| `VerificationProofs`, `ContextProofs`, `SignatureObjectProofs`, `PublicationsFileProofs`, `HashChainProofs`, `TlvProofs` | theorems on the module of that name | | |
| `MC*` | small instances for TLC | | |

Conventions. A hash, key, certificate or time is a value compared for equality unless a property is
about its computation. `None` is NULL. Servers, files and the caller are the environment: their
inputs are chosen with `\E` from sets that contain good values and values wrong in one field. A call
that returns an error code before changing anything leaves all variables but the result alone.
Operators named *Variant* in a comment are deliberately wrong forms that `PROJECT.json`'s mutants
put in place of the definition after them, to show that each property can fail.

## 3. What the runs check

| run | question | bound | distinct states |
|---|---|---|---|
| `verification` | What does a verdict mean, after any sequence of calls; does the log fit; does every call return? | 2 hashes, 2 times, 2 levels, 2 files, 8 calendar chains, every anchor one field off, answers with a status or without | 482 k |
| `signature_object` | Do fields and TLV agree; does an extension do what it says? | 2 handles, 7 inputs, 5 responses, 5 extender answers with a status or without, 4 publications | 219 k |
| `hash_chain` | Do the loops compute what the chain defines? Are HMACs, identities and values what they should be? | 3 links (5 for times), levels 0..3 in an int of 16 values, 5-bit times; keys of 0 to 7 bytes for a block of 4; 3 links with names of up to 2 characters; payloads of up to 4 bytes for integers of 3 | 77 k |
| `tlv_template` | What is accepted and written; is a copy a copy? | 4 template shapes, up to 4 elements of 9 kinds, 2 values in a list | 136 k |
| `network` | Whose answer does a handle get? | 2 handles, 2 keys, 3 setter calls, 1 piece left by a failed transfer | 1.04 M (with symmetry) |
| `context` | Are the libraries there for every context, are counts and handles balanced, does the ring keep its log? | 2 contexts, ring of 3 with up to 5 errors, a program that makes and frees contexts under a lock | 326 k |
| `publications_file` | Is a file read, verified and searched right in any order, against any trust store, by any typed string? | every file of up to 4 elements of 8 kinds, plus files with more publications and signatures wrong in one way; strings of 4 records with every slip in one character; a checksum of 16 bits | 263 k |
| `tlv` | Who owns what, what do bytes say, are nested lists sequences? | 4 TLVs, 6 calls that change something, 2 references held, bytes of 8 values, buffers of 64 | 88 k (view) |

Why the bounds are enough. Every computation is over equality of values, so two values of a kind
(equal or different) give every outcome of a comparison; two handles are needed and enough for one
to disturb the other; a log that may outgrow 32 entries is followed without a bound on the number of
calls, since a step that has been performed is never performed again before a reset. In
`HashChain` the level type has its maximum and its `int` range scaled down so that both
overflows (a level above the maximum, a correction cut to an `int`) happen with corrections 2 and
13; the time loop is exhaustive for all chains of five links and all 5-bit publication times.
In `Context` two contexts are one that comes or goes while another is used; the second
collects few errors, since rings are not shared. In `Network` the third setter call is what it takes to configure, reroute and come back.
`SYMMETRY` is used only over handles and over keys or hash values no definition distinguishes.
In `HashChain` keys are shorter than a block, as long and longer, and longer than allowed; digests
are half a block and a block; three links take two separators; three bytes of integers and four of
text are more than the longest unit and what precedes it. In `Tlv` a byte of eight values has one
type that fits it, so each header, the
limit of a byte and the limit of a buffer are met with few TLVs; four TLVs are two levels with two
siblings, and what a fifth would do to a buffer a sibling does. Its `VIEW` leaves out what no later
call reads: the last call, with the number of calls made, bytes nobody points at, and slots behind a
list; since states are met first with the fewest calls, the bound on calls cuts no more than it says.
The action properties are evaluated on every step to a state, seen or not. In `PublicationString`
checksums have 16 bits and a polynomial that, like CRC-32, tells apart any two strings that differ in
two neighbouring characters.

Properties that are worth the reader's time:

- `VerdictSound`, `FailureJustified` (Verification): KSI_OK of a call that resets the result means
  the signature is consistent and anchored *now* (an extender anchors the time of a signature only with an
  answer that has a status), and no call returns it with a failed step in the
  result (`VerdictSound` has both parts); a failure has a cause in the data.
  `AnchorsAfterInternalSteps`: what the left-over result of an earlier call may do to a later one.
- `BorrowedFileAlive`: the borrowed publications file has not been freed when it is used. It holds
  because a step performed once is not performed again before a reset forgets the file: a mutant
  that keeps the pointer breaks it.
- `LogFits`: the array of 32 is never exceeded although no code checks it.
- `Reparsable`, `ExtendedAsAsked`, `FailureChangesNothing` (SignatureObject). `ExtendedAsAsked` says that
  an extended signature has the chain the extender answered with, which is from the signing time to the
  publication asked for if the answer has a status; and that a genuine answer extends: one that begins
  where the object's own calendar chain does and to which its aggregation chains lead in some order
  (`CanExtend`). Among the signatures of the run are one whose calendar chain begins elsewhere and one that
  has a chain twice.
- `ComputesAsDefined` (HashChain): aggregation chains, calendar chains and HMACs against independent
  definitions (the term of the chain, RFC 2104); `TimeIsPosition`: the time against the way of a leaf
  to the root of the calendar tree; `Returns`: the loops terminate.
- `ReadsAsDefined` (HashChain): the signer identity is all names from the top down, within its
  buffer; just the well-formed payloads are read as integers, strings or imprints, and are written
  again as they were.
- `ReadAsShaped`, `CopiedAsShaped` (TlvTemplate): every well-formed TLV is taken, in any order, and
  nothing else; a copy is a copy and what is malformed never arrives in one.
- `RoutedAsWanted`, `AnswerIsOwn`, `ResponseIsWhole`, `ResponseKept`, `GoodAnswerAccepted` (Network).
- `ReliedOnIsThere`, `ResourcesBalanced` (Context): what `KSI_CTX_new`, also a failing
  one, and `KSI_CTX_free` do to what contexts share, and that the provider is what it is cast to. They
  hold when the program serialises making and freeing (`Serialised`); the run `own_context` drops
  that. `ErrorsAreLogged`: the ring implements `ErrorLog`, under the refinement mapping `LogOf`;
  slots that earlier calls left show only as the code of the base error of a trace without errors.
- `ParsedWhole`, `GenuineVerifies`, `SearchesFind` (PublicationsFile): files in any order are read,
  just the ones whose signer is trusted now verify, and a search finds the next record or the one that was asked
  for, also by a typed string, where a slip finds nothing.
- `RefsBalanced`, `MemoryAlive`, `ValueKept`, `ReadsBack`, `CloneIsCopy` (Tlv): objects share a buffer
  that casts write in place and appends replace; none of it changes what another object says. `ValueKept`
  leaves out the cast of a payload with a header longer than `serializeTlv` makes, which is written
  again with the shorter one and then says the same in other bytes (`Rewriting`).
  `NestedIsSequence`: the arrays with their counts implement `Forest`, with
  `children <- Elements(nested)`.

The variable `trap` of `Tlv` deserves a word. Several sequences of legal calls leave memory or nested
lists broken: a TLV outlives the one whose buffer it points into (`outlived`), a raw value is set
that does not fit (`tooLong`) or over bytes another TLV points at (`overwritten`), `encodeAsRaw` writes
over what it has still to read or, when it fails, frees the buffer it keeps (`recast`), a list is
changed behind its count
(`behind`) or in the middle (`insert`). The model follows the program into each and stops there, since
what comes after is undefined; every property speaks of behaviours up to a trap. The places are
named at the definitions. `recast` is wider than the harm: it stops at every encoding into a buffer that
is not laid out in place or that others point into, also where the pieces would by luck land on bytes
already read. Of those moves, which the code may handle, `MemoryAlive` and `ValueKept` say nothing.

### Disagreements found while modelling

Four runs are expected to end in a violation; each checks one sentence of the repository.

1. `own_context`: `openSslGlobal_init` counts before it initialises, in a static integer that no lock
   guards (`pkitruststore_openssl.c:68`), so a thread may be given a context whose digests are not
   loaded, although `ksi.h:252` asks for thread safety only that a context is not shared.
2. `extended_publication`: `KSI_Signature_extend` clears `pubRecClone` one statement before testing
   it (`signature.c:1262`), so the verification meant for extended signatures never runs.
3. `algorithm_follows_left_links`: `aggregateChain` notes the algorithm of a left link but only
   resets the hasher, which keeps its first algorithm (`hashchain.c:228-243`).
4. `requests_authentic`: an extend request is authenticated before the header callback changes it
   (`types.c:526`), an aggregation request after.

Met on the way and without a run of their own; where a property would meet one, it says what it
leaves out.

- `KSI_Signature_verifyWithPublication` runs `KSI_VP_OFFLINE`, whose first alternative accepts a
  signature by its authentication record without a look at the given publication (`signature.c:2674`,
  against "verifies signature using given publication", `signature.h:322`).
- A response of the extender without its optional status (`tlv_template.c:190`) is `KSI_OK` without a
  look at the request id, the times and the shape of its chain: `KSI_ExtendResp_verifyWithRequest`
  returns the status converted (`types.c:1094`), which is `KSI_OK` for NULL (`net.c:813`), although it
  "verifies that the response is a correct response to the concrete request" (`types.h:350`) and both
  callers go on from "Verify the correctness of the response." (`signature.c:1156`, `signature.c:2325`).
  `VerifyWithRequest` and `Answering` take such answers, so `AnchoredByExtender` and `AsAsked` say
  of the times only what an answer with a status lets them say.
- `verifyPublicationsFile` returns `KSI_OK` when the file does not verify (`signature.c:2276`); its
  step is only in `KSI_VP_PARANOID` (`signature.c:75`), which no call uses.
  `KSI_VerificationResult_getStepResult` lets `index == steps_len` pass (`verification.c:118`).
  `createAggregated` does not compare the request id of the response.
- Templates: `construct` reports a second element of a group and writes it all the same
  (`tlv_template.c:692`, against "None or at most one TLV in the group 0 may be present" in
  `tlv_template.h`).
- TLVs: `expandNested` does not go on to the nested TLVs after a cast, so a clone is expanded by one
  level ("makes an identical copy", `tlv.h`); a payload of exactly 65536 bytes is written with length
  0; `KSI_TLV_setRawValue` changes the length before it checks the buffer; `KSI_TLV_setUintValue`
  checks neither type nor size; `encodeAsRaw` frees the buffer of the TLV when serializing fails; the
  payload `KSI_TLV_fromUint` makes cannot be serialized; reading takes a header of four bytes where
  two would do, and a cast to nested TLVs and back writes two (`tlv.c:1156`), so the bytes change where
  `tlv.h` promises a change of "the internal representation" (`tlv.h:110`).
- Lists: `insertElementAt` shifts upwards from the low end, so that the element at the position
  overwrites those behind it (`list.c:170`, against "All elements with equal or greater indices are
  shifted", `list.h`); `replaceElementAt` accepts the position behind the last element.
- Hashes: `parseMeta` shifts the high byte of the length out (`(x << 8) & 0xff`, `hash.c:448`, against
  "2 bytes of length", `hash.h:289`); `KSI_DataHash_MetaHash_fromTlv` writes the zero that makes the
  metahash "a null terminated sequence of bytes" (`hash.h:304`) at byte 65 whatever the length of the
  imprint, so a name that fills a shorter imprint ends somewhere in uninitialised bytes, and the
  identity has up to four of them; `KSI_HMAC_create` pads keys to 64 bytes also for SHA-384 and
  SHA-512, whose blocks have 128.
- Values: an empty octet string is read but cannot be written, since `KSI_TLV_setRawValue` takes no
  empty value.
- Errors: `KSI_ERR_getBaseErrorMessage` hands out the code of `errors[0]` also when there are no errors
  (`base.c:752`, only the message is guarded, `base.c:755`): what an earlier call left, or memory never
  written, where `ksi.h:299` promises the base error. `ErrorLog` leaves that code open (`Emptied`).
- Publications file: "components that must appear in the following order" (`publicationsfile.h:32`), but
  the parser is written to "make no assumptions with the ordering" (`publicationsfile.c:237`);
  `AnyOrderAccepted` states the second, and with it that the first is not enforced.
- Searches: `KSI_PublicationsFile_getLatestPublication` runs the loop of the nearest publication, as its
  header documents it (`publicationsfile.h:182`), while its comments speak of the latest
  (`publicationsfile.c:793`: for NULL, which is refused; `publicationsfile.c:796`: "after the last found
  time", where the earlier one is kept); `NearestIsNext` follows the header. A search by publication string
  compares only the first record of that time, so one behind it is refused with
  `KSI_INVALID_PUBLICATION` although it is in the file, and leaves the caller's pointer as it was where
  `publicationsfile.h:155` promises the record or NULL; `StringFindsRecord` says just when.
- Publication strings: the decoding table of `base32.c` is of unsigned bytes with -1 for 0, 1, 8 and
  9, which are then decoded as 31; the padding loop of `KSI_base32Encode` lacks the test of the group
  length that the other loop has. `KSI_PKICertificate_toString` swaps subject and issuer;
  `KSI_PublicationRecord_clone` drops the repository addresses.
- `KSI_RDR_verifyEnd` is satisfied by any file reader; a publications file is never loaded again
  (`base.c:382`, a TODO), and its elements behind the signature are read but not covered by it.

## 4. Fairness

Only `verification` and `hash_chain` check liveness. Both assume weak fairness of the step of a loop that
one thread runs: `WF_vars(VerifyPolicy)` for the engine (network calls return, since transfers have
timeouts; errors are among their outcomes) and weak fairness of a loop iteration in
`HashChain` (`Compute`). Nothing is assumed of the caller: it need not call. The transfers in `Network`
carry no fairness, and no liveness is claimed of them.

## 5. What is proved

The theorems hold for every value of the constants: any number of contexts, handles, hashes, files,
links, elements, jobs, and any width of the scaled integers. They rest on the named `ASSUME`s of the
modules, which TLC evaluates in the runs and which only say what the constants stand for:

- `Verification`: files map to certificates and publications, times are naturals, 0 is a level,
  signatures and chains are records of their kind, and the two marks for a chain that is inconsistent
  or cannot be computed are no hashes (`OutcomesAssumption`).
- `SignatureObject`, `PublicationsFile`: what is parsed is a list of elements whose values have the
  type of their tag; a publication record given by the caller is one; the index of an aggregation chain
  has a length (`ChainsAssumption`).
- `Context`: finitely many contexts, fewer than a `size_t` counts; a ring has a slot.
- `Tlv`, `List`: the objects that are made have a type, NULL is no TLV, an array grows by two slots
  or more; what comes from outside consists of bytes, and the integers that are set fit two of them
  (`BytesAssumption`).
- `HashChain`, `Hashing`, `Values`: an `int` holds twice the highest level and one
  (`WidthAssumption`; in C: 511 against 2^31), a job has the arguments of its operation (names are
  texts, payloads of integers consist of bytes; `JobsAssumption`), a digest is not longer than the
  largest input block.
- `Network`: addresses of different schemes differ, bounds are naturals.
- `TlvTemplate`: a template is shaped as every table of the library is (`WellShaped`, against
  `KSI_DEFINE_TLV_TEMPLATE` in `tlv_template.c:51`, `signature.c` and `publicationsfile.c`): no two slots
  have a tag, one slot writes a field, and slots share a field only if it is a list that is neither
  mandatory nor in an exclusive group. The loop refuses templates of more than `MAX_TEMPLATE_SIZE` (255,
  `tlv_template.c:464`) slots; the library has none, and the refusal is not modelled.
- NULL is no value of the data.

In every row below the property alone is not inductive; the invariant that is, with the parts beside
the types and why they are needed:

| module | theorems (property) | inductive invariant |
|---|---|---|
| `VerificationProofs` | `TypeCorrect` (`TypeOK`), `LogAlwaysFits` (`LogFits`) | `LogBound`: the log has at most one entry for each performed step and two more if `AGGRCHAIN_WITH_CALENDAR_CHAIN`, the only step that logs up to three results, is among them. `PerformVerification` refuses a performed step, so each of the ten adds its share once: at most 12 of 32. |
| the same | `AnchorsComeLast` (`AnchorsAfterInternalSteps`), `BorrowedFileNotFreed` (`BorrowedFileAlive`), `VerdictIsSound` (`VerdictSound`), `FailureIsJustified` (`FailureJustified`) | `VerdictInv`: the log agrees with the two sets of steps; an internal step succeeded before anything behind it is performed; since the last reset (`SinceReset`) a performed step has established its condition (`Holds`) or its failure the contrary (`Refuted`), and the borrowed file is that of the context; the steps the engine passed were performed or had nothing to check (`Passed`); once the extender is asked nothing else can fail (`OnlineLast`); why earlier alternatives ended (`Tried`). For the calls that do not reset, `LogAgrees`, `InternalFirst` and `OnlineLast` are what is left. |
| `PduProofs` | `TypeCorrect` (`TypeOK`), `ResponsesAreWhole` (`ResponseIsWhole`), `ResponsesAreKept` (`ResponseKept`), `AnswersAreOwn` (`AnswerIsOwn`), `GoodAnswersAccepted` (`GoodAnswerAccepted`), `RoutingCorrect` (`RoutedAsWanted`) | `Inv`: with `HandlesSound`, what lies in the raw buffer comes from a cut transfer, and a kept response is the handle's own reply or begins with a piece that is not whole. `FetchSound` is the heart: a call that asks a handle for its response sets every option of the shared libcurl handle first, so it changes this handle alone. |
| the same, of `TlvTemplate` | `EngineTypeCorrect` (`TTypeOK`), `CopiesAreCopies` (`CopiedAsShaped`), `ReadsAsTemplatesSay` (`ReadAsShaped`) | `EngineInv`: while elements are read, `ReadInv`: every slot before `tmplStart` is hit and no list, a slot is hit just if its field has a value, the group was hit once, and of a TLV without fault every value so far is where it belongs; while slots are written, `WriteInv`: the TLV has, field by field, the values of the slots so far; while they are read again, `CopyInv`: it has those of the object. `WellFormedTakes` is the heart: the scan never starts behind a slot that could still take an element, since that slot has its only value. |
| `ContextProofs` | `ContextTypes` (`TypeOK`), `RingKeepsTheLog` (`ErrorsAreLogged`), `SerialisedContextsReady` (`ReliedOnIsThere`), `SerialisedContextsBalanced` (`ResourcesBalanced`) | `ContextInv`: where each thread is in its call fits what its context has (`CallsInOrder`), and the libcurl handles are those of the clients there are. `RingKeepsTheLog` shows each step of the ring to be a step or a stutter of `ErrorLog`; its core is the arithmetic of positions modulo the size, by which an entry that an earlier call left is never read but as the code of the base error of no errors. Under `Serialised`, `SerialInv`: one call at a time, each count is the number of contexts that counted up, taken where the running call is, and a library with a count is loaded. |
| `SignatureObjectProofs` | `ObjectTypes` (`TypeOK`), `ObjectsReparse` (`Reparsable`), `FailuresChangeNothing` (`FailureChangesNothing`), `ExtendsWhatItCan` (`ExtendedAsAsked`: `AsAsked` and `CanExtend`; `ExtensionsAsAsked` is the first alone) | `ObjectsInv`: every object is `Kept`: its fields are what `Extract` reads from its TLV, whose elements have the values of their tags, at most one calendar chain and one anchor. A created object may lack what `Complete` asks, which is why its origin is part of it. An order in which the chains get shorter one by one is the one they are sorted into (`SortIs`, from `OntoIsIdentity`: a function onto 1 .. n that never falls is the identity), so what is consistent in some order is consistent as extended. |
| `PublicationsFileProofs` | `PublicationTypes` (`TypeOK`), `FilesParsedWhole` (`ParsedWhole`), `GenuineFilesVerify` (`GenuineVerifies`), `NearestIsNextOne`, `RecordsAreFound` (the parts `NearestIsNext`, `RecordFinds` of `SearchesFind`) | `FileInv`: the file of the context is what its content parses to. That a parse loses nothing and that its offset is the size of what precedes the signature is an induction along the elements, in any order. |
| `HashChainProofs` | `ChainTypes` (`TypeOK`), `ComputesAsChainsAreDefined` (`ComputesAsDefined`), `TimesArePositions` (`TimeIsPosition`), `ReadsAsTheyAreDefined` (`ReadsAsDefined`) | `ChainInv`: `LoopInv`, after `done` links the level, the hasher and the hash are those of the definition; `ResultInv`, a chain that was refused could not have succeeded; `TimeInv`, `time + span` never leaves a `time_t`. `HmacIs` shows the loop over a block of `KSI_HMAC_create` to be RFC 2104. For the time, `PositionInv`: the links so far, from the root down, lead to the block of leaves `time .. time + span` (`DescentInv`). What makes that the tree is `HalvesAreNext` and `NextBelowIsHalf`: the nodes a node lies next above are just its halves at `HighBit`; `ClimbMeetsDescent` turns the way around. For what is read, see below. |
| `TlvProofs` | `TypesAreKept` (`TypeOK`), `ReferencesAreBalanced` (`RefsBalanced`), `ImplementsForest` (`NestedIsSequence`) | `IInv`: with the types, short of a trap `Good`: every list of nested TLVs is sound (`Lists`: a slot is left over, the slots in use hold TLVs), every count is the references there are (`Balanced`), no TLV is nested below itself (`Acyclic`), and objects not made yet hold nothing. Freeing is a least set, those that lose every reference they have (`Dying`). `FreedIs` shows that it leaves the counts of the others balanced; acyclicity is what keeps the TLV a call is made on (`Survives`), and rests on the guard of `Given` that a client never nests a TLV below itself, which the code leaves to the client: without it replacing or removing an element could free the list that is being changed. `AppendKeeps`, `RemoveKeeps`, `ReplaceKeeps`, `InsertKeeps` and `SortKeeps` are the steps of the refinement: what each loop over the array does to the sequence of its elements. |
| the same | `MemoryStaysAlive` (`MemoryAlive`), `WrittenReadsBack` (`ReadsBack`), `ValuesAreKept` (`ValueKept`), `ClonesAreCopies` (`CloneIsCopy`) | `MInv`: `IInv` with `Memory`: every pointer lies in its buffer over bytes that were written (`Backed`), an owner points into its own buffer, what anybody points at belongs to the caller or to a living TLV that owns a buffer (`Lender`), and tags and flags fit a header. `CInv` adds that the last clone is a copy. The argument is below. |

`SerialisedContextsReady` and `SerialisedContextsBalanced` have the hypothesis `Serialised`, that
the program makes and frees contexts under a lock. Without it both are false, which is the
disagreement `own_context` shows. The types and the ring need no such hypothesis.

Induction over data. The theorems of the library on induction take an operator as a parameter, which
the installed provers cannot instantiate. `SelectionProofs` therefore states it over sets:
`LeastNumber`, from the well-foundedness of the naturals, and `Induction`, from it. What a loop
computes is written as a recursive function over the positions of its list (`Reading`, `Nearing`,
`Offering`, `Selecting`, `Levels`, `Hashes`, `Climb`, `IntegerOf`, `VerifyUtf8`, `Rooms`, `Texts`, `Pow2`), that such a function exists is shown by `RecursionExists` and
the lemmas named `...Unfolds`, and what it computes by `Induction`. For the same reason `Selection` has a
filter of its own: `SelectSeq` takes an operator.

What `HashChain` reads. That an integer is read back is the arithmetic of positions: the number of a
payload without a leading zero lies between two powers of the base (`WorthBounds`), so `MinSizeIs` gives
its length, and its digits are found again by division (`WorthSplits`, `IntegersReadBack`). `verifyUtf8`
skips what it has seen to be continuations, the definition looks at every byte: `WellStep` is the step from
one to the other. The identity is not cut because the space for each name and a separator was counted
(`RoomsAre`, `NameIs`, `TextsFit`), and what the loop prints from the left is what the definition joins from
the right (`TextsAreJoined`).

The bytes of `Tlv`. What a TLV says is a recursion over what is nested below it (`PayloadIn`), and that
such a function exists follows from nothing being nested below itself (`TreeRecursion`, `TreeInduction`);
from it come its equations, `PayloadIs` and `PiecesUnfold`. A header that is written is read back as it
was (`WrittenIsRead`), and there is one way only to split bytes into TLVs (`SplitFollows`). Every call
leaves the memory and the list of all but one TLV as they were (`Orderly`), and that one says the same or
what the call gives it, so by the recursion everything above it does (`SayingKept`). The calls that write
over bytes in use are the hard ones: `castRaw` writes the pieces from the last to the first into the
buffer the nested TLVs point into, and where that buffer holds nothing else no piece lands on
one still to be read (`Filled`, `AllWritten`, `RawBufferIs`); `castTlv` points the new TLVs at the bytes
their headers were read from (`ExpandedSays`); a clone writes what its original says into a
buffer of its own and casts again as deep as `expandNested` goes (`CloningSays`).

Only model-checked, and why:

- Liveness (`EveryCallReturns`, `Returns`): fairness and ENABLED are out of the prover's reach.
- `StringFindsRecord` of `SearchesFind`: that a checksum tells apart any two strings that differ in one
  place is a fact about one polynomial, not about all constants.

## 6. What is not modelled

What OpenSSL and libcurl do inside, logging, the vendored URL parser (its verdict on an address is an
input of `Network`), examples, tests and all packaging; the reasons are in `PROJECT.json`. Of the
modelled files: reading signatures from files and sockets, getters without effect, macros that
generate accessors, names of algorithms, dates and hashes as strings, timeouts as numbers, partial
sends (`net_tcp.c:152` sends a request from its beginning again after a short send), memory that runs
out, handles that outlive their provider (`base.c:905`), and response headers of HTTP
(`CURLOPT_FAILONERROR` is never set, so a status like 404 with a body is a response like any other,
which `Network` has as the reply `other`). The track of a template error, toString of everything.

## 7. Plan

Done, in the order of importance: `Verification`, `SignatureObject`, `HashChain`, `TlvTemplate`,
`Network`, `PublicationsFile`, `Context`; `List`, `Tlv` with its refinement of `Forest`,
`PublicationString`, the trust store in `PublicationsFile`, `Hashing` and `Values`; the proofs of
section 5.

Left to model:

1. Composition of `Context` and `Network`: the provider exchanged while handles are out
   (`net.h:174` against `base.c:905`).
2. Composition of `SignatureObject` with the answers of `Network`: signing and extending as
   request, handle and answer, with the retry of a cut transfer; `createAggregated` and the request id.
