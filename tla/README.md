# libkolibre-xmlreader in TLA+

`libkolibre-xmlreader` gives an application SAX events for XML and HTML
documents that lie in a file or behind a URL. Below the parser it has a small
HTTP client over libcurl's multi interface, with redirects, revalidation and a
cache that all streams of the process share. This directory holds a
specification of that code, the instances that are model-checked, and theorems
about it with machine-checked proofs.

## 1. The system

### Components, state, operations

| component | source | state it keeps | operations that change it |
|---|---|---|---|
| `DataStreamHandler` (singleton) | `DataStreamHandler.cpp` | map `HttpCache` from URL to object, queue `freeHandles` of curl handles, the multi handle | `newStream`, `releaseHandle`, `getCacheObject`, `addCacheObject`, `checkCacheSize`, `DestroyInstance` |
| `CacheObject` | `CacheObject.cpp` | EMPTY/WRITE/READ/FULL state, deflated body, position, ETag, location, tidy flag | `writeBytes`, `readBytes`, `resetState`, `resetBuffer`, `setTidyFlag` |
| `HttpStream` | `HttpStream.cpp` | its easy handle, its cache object and whether it must delete it, byte counts, holding buffer, last headers | constructor, destructor, `readBytes`, `headerCallback`, `writeCallback`, `setupConnection`, `destroyConnection`, `resetBuffer` |
| `InputStream` | `InputStream.h` | (interface) | `readBytes` |
| `XmlReader` | `XmlReader.cpp` | namespace stack, stop/error/end flags, last error, libxml context | `parseXml`, `parseHtml`, `parse`, the SAX callbacks, `stopParsing` |
| `XmlNamespace` | `XmlReader.h` | prefix, URI, parent, reference count | constructors, `ref`, `deref`, `uriForPrefix` |
| `FileStream` | `FileStream.cpp` | the open file or a cached copy, position | constructor, `openStream`, `readBytes`, destructor |
| `TidyStream` | `TidyStream.cpp` | its input stream, the tidied text or a cached copy of it, position, mode | constructor, `Perform`, `readBytes`, destructor |
| `DataSource`, `XmlInputSource` | `DataSource.cpp` | the stream of one pass | constructor, destructor |
| `XmlAttributes`, `XmlDefaultHandler`, `XmlError` | | none that changes | |

### How they interact

An application calls `parseXml` or `parseHtml`. `XmlReader` makes a
`DataSource`, which asks `DataStreamHandler` for a stream; `newStream` takes an
idle curl handle or makes one, looks the URL up in the cache, and hands handle
and cached object to a new `HttpStream`. The loop of `XmlReader::parse` then
calls `readBytes` and feeds libxml, whose callbacks come back into the reader
and from there into the application. Inside `readBytes` the stream drives the
multi handle that **all** streams share: `curl_multi_perform` runs the header
and write callbacks of every open stream, and `curl_multi_info_read` returns the
completion messages of every transfer, whoever asks. When a stream is closed its
destructor puts its object into the cache, deletes it or resets it, and returns
the handle.

A URL that does not begin with `http` gets a `FileStream`, which reads a copy
from the same cache if there is one. A document that is to be tidied gets a
`TidyStream` around either: at the first read it reads its input to the end,
deletes it, has libtidy mend the text, and puts that into the cache object of the
URL, in the place of the raw text. `parseHtml` depends on this: it checks the raw
text, if that fails the tidied one, and then opens the URL a third time, without
tidying, to parse for the application whatever the cache now answers with.

The library is single-threaded. Its concurrency is that of callbacks: what
happens to stream A while the application is inside `readBytes` of stream B.

### What is hard here

* **Ownership.** A cache object belongs to the stream that made it or to the
  map; a stream may also only borrow the map's. `bDeleteCache`, `bStoreCache`
  and the object's own state together say which, and are set in five places.
* **Validators against bodies.** The ETag arrives before the body; a transfer
  may end in between.
* **Interleaving.** Callbacks and completion messages of several transfers
  inside one call.
* **Partial failure.** Lost connections, error pages, redirects, early closing,
  a `useCache(false)` that comes after the request was prepared.
* **Bounds.** Eviction walks a map backwards while erasing from it.
* **Two texts in one place.** The raw and the tidied text of a document share a
  URL, an object and an ETag; one flag tells them apart.
* **Event protocols.** Namespaces are shared and reference counted; parses are
  stopped, abort, and leave a stack behind for the next one; `endDocument` has
  two callers; `parseHtml` parses up to three times.

`PROJECT.json` lists these hazards one by one with their lines.

### What makes each component correct

* `DataStreamHandler`: every entry of the map is a live object of its own;
  handles have one owner and do not pile up; eviction frees enough, nothing in
  use, and nothing without need.
* `CacheObject`/`HttpStream`: only complete bodies are kept as complete; an
  idle entry's ETag is that of its body; objects are neither leaked nor used
  after they are freed; the caller's buffer is not written after its call.
* `HttpStream` as an `InputStream`: a reader gets one version of the document in
  order, no older than the one current when it opened the stream, and is told of
  the end only after all of it; every `readBytes` comes back.
* `TidyStream` as an `InputStream`: the same for the tidied document; and the
  flag of an entry tells which text it holds.
* `parseHtml`: the application is given the text whose check succeeded, or a
  version that came out since, all of it when the result is true; what libtidy can
  mend is not refused.
* `DestroyInstance`: nothing is left that the process could still free.
* `XmlNamespace`: counts are those of the references there are; look-up finds
  the innermost declaration.
* `XmlReader`: starts and ends are reported with the same namespace; the end of
  the document is reported once; success means the document was read and had no
  error; failure comes with an error of this call.

## 2. Modules

| module | models | about |
|---|---|---|
| `CacheObject` | `CacheObject.cpp` | operators on the record of one object: `WriteBytes`, `FinishBytes`, `ReadOutcomes`, ... |
| `DataStreamHandler` | `DataStreamHandler.cpp` | variables `heap`, `HttpCache`, `freeHandles`; look-up, eviction, insertion, the handle queue |
| `HttpStream` | `HttpStream.cpp`, curl and the servers | the state machine: one action per call, callback or message |
| `DocumentStream` | `InputStream.h` | abstract specification of what a reader may see |
| `FileStream` | `FileStream.cpp` | extends `HttpStream` with streams of local files over the same cache |
| `TidyStream` | `TidyStream.cpp`, `newStream` and `DestroyInstance` of `DataStreamHandler.cpp` | extends that to all streams `newStream` makes, as a state machine of its own |
| `HtmlPasses` | `parseHtml`, `DataSource.cpp` | the three passes of `parseHtml` over those streams |
| `XmlNamespace` | `XmlReader.h` | a heap of namespaces, `NewNamespace`, `UriForPrefix`, `Deref`, `PushNamespaces` |
| `XmlReader` | `XmlReader.cpp`, libxml | the parse loop, the callbacks, the passes of `parseHtml` |
| `MCHttpStream`, `MCTidyStream`, `MCHtmlPasses`, `MCXmlReader` | | instances for TLC |
| `RecursionProofs` | | lemmas about recursive functions and folds over finite sets |
| `HttpStreamProofs`, `SequentialProofs`, `InterleavedProofs`, `CompleteProofs`, `TidyProofs`, `TextProofs`, `XmlReaderProofs` | | theorems |

`HtmlPasses` extends `TidyStream`, which extends `FileStream`, which extends
`HttpStream`, which extends `DataStreamHandler`, which extends `CacheObject`;
`HttpStream` and `TidyStream` instantiate `DocumentStream`. `XmlReader` extends
`XmlNamespace` and stands apart: what happens inside a pass and what happens
between the passes are checked in two models, since they share nothing but the
text a pass is given.

### HttpStream

A document is a sequence of pieces, each what curl hands to one write callback;
a piece names its URL, the version of the document and its number, so losing,
repeating, swapping or mixing pieces shows. The version number of a document
also stands for its ETag and Last-Modified. `faults` collects undefined
behaviour met (a use of a freed object, a second free, a decremented erased
iterator, a write to the buffer of a call that has ended); invariants say it is
empty.

| actions | code |
|---|---|
| `NewStream` | `DataStreamHandler::newStream` with the constructor and `setupConnection` |
| `BeginRead` | entry of `readBytes`: what the holding buffer and the counters give |
| `Header` | `headerCallback`, all headers of one response |
| `Data` | `writeCallback` for one piece: to the caller, to the holding buffer, to the cache object |
| `Complete`, `Fail` | external: curl finishes a transfer and queues its message |
| `TakeFinished`, `TakeUnmodified`, `TakeRedirect`, `TakeError` | the branches of `readBytes` on a message |
| `PerformAgain`, `EndRead`, `EndReadFromCache` | the loop condition and the two ends of `readBytes` |
| `Delete` | the destructor, with `addCacheObject`, `checkCacheSize` and `releaseHandle` |
| `ServerUpdate` | external: a new version is published |

A call of `readBytes` runs to its end before the application makes another, but
within it the steps of every transfer interleave: `cur` is the stream whose call
it is. External are curl (a transfer is sent, has a head, has data, is done) and
the server (it answers with a 200, a 302, a 304 when the validator still holds,
or a 404, in the framings of the run).

### FileStream and TidyStream

A slot of `Stream` holds an HTTP or a file stream, and may hold a TidyStream
around it. `status[s]`, `out[s]` and `since[s]` are what the reader of the inner
stream sees, be it the application or the TidyStream; `tidy[s]` has the same
fields for the reader of the tidied text. `calling` is the TidyStream inside
`readBytes`, as `cur` is the HTTP stream. libtidy is external: `Tidy` turns every
piece of a text into its tidied form, and nothing into a page (`TidyForceOutput`).
A file that changes is replaced, so that an open stream goes on with the version
it has opened.

| actions | code |
|---|---|
| `OpenStream` (`NewStream` or `OpenFile`, `TidyConstructed`) | `newStream` with the constructors and `useCache` |
| `ReadDisk`, `ReadDiskFails`, `ReadCopy`, `CloseFile` | `FileStream::readBytes` (with `openStream`) and destructor |
| `BeginTidyRead`, `AskInput`, `DeleteAtEnd`, `DeleteOnError` | `TidyStream::readBytes` and the loop of `Perform` |
| `UseTidiedCopy`, `MendInput` | the rest of `Perform` |
| `DeliverBuffer`, `DeliverCopy`, `AskAndPassOn`, `PassOn`, `PassErrorOn` | the modes of `TidyStream::readBytes` |
| `DeletePlain`, `DeleteUnread`, `DeleteTidied`, `DeleteCached`, `DeletePassThrough` | the destructors |
| `ReadPlain`, `CallStep` | `readBytes` of a stream without a TidyStream; a step of a call of `HttpStream::readBytes` |
| `DestroyInstance` | `DestroyInstance` and `~DataStreamHandler` |
| `Publish` | external: a document changes |

### HtmlPasses

`html` is the call of `parseHtml`: its pass, the slot of its stream, what the
pass has fed to libxml, what the check that succeeded had been fed, and
which versions of the document have come out during the call (history). libxml is
abstracted to its verdict on a text (`FlawAt`).

| actions | code |
|---|---|
| `ParseHtml`, `NextSource` | a `DataSource` for the first and for a later pass |
| `ReadSome`, `Feed`, `StreamStep` | the loop of `parse`, and the steps inside its `readBytes` |
| `EndPass` | the result of a pass, with the `DataSource` deleted |
| `Change`, `Destroy` | external: a document changes, at any time; `DestroyInstance` |

### XmlReader

A document is the sequence of what libxml finds in its text: start tags with
their names and `xmlns` declarations, end tags, text, warnings, errors, trailing
content, a byte order mark. A read delivers the next stretch of it, of any
length. Names are abstract but for one relation, which prefixes a name begins
with, since that is what `uriForPrefix` tests. libxml is external and modelled
from how it is used: after an error or `xmlStopParser` its XML parser makes no
more callbacks, its HTML parser may go on to the end of the chunk, and
`xmlParseChunk` returns an error after an error and, depending on the version,
after a stop.

| actions | code |
|---|---|
| `ParseXml`, `RefuseXml`, `ParseHtml` | `parseXml`, `parseHtml`, with the outcome of `startDocument` |
| `Read`, `ReadOnlyMark`, `ReadEnd`, `ReadFails`, `ChunkDone` | the loop of `parse`; `ReadOnlyMark` is a first read that holds nothing but the byte order mark, after which `bytes_read` is 0 |
| `StartElement`, `EndElement`, `Characters`, `Warning`, `Error`, `Extra`, `Ignored` | the SAX callbacks, each with the application's answer; `Ignored` is their first test |
| `CheckChunk` | a chunk of a pass with the null handler |
| `Finish`, `CheckTidied`, `GiveUp`, `HandleHtml`, `RefuseHtml` | what follows a pass |
| `DeleteReader`, `NewReader` | destructor and constructor |

`open`, `closed` and `ended` are what the application has seen. They and `base`
are history: the code has no such members.

## 3. What the runs check

`tlc -config <run>.cfg MCHttpStream` (`MCTidyStream` for `Tidying`, `MCHtmlPasses`
for `Html` and `FallbackLost`, `MCXmlReader` for `Parsing` and `WrongNamespace`).

| run | properties | states | bounds, and why they are enough |
|---|---|---|---|
| `Sequential` | `TypeOK`, `NoUseAfterFree`, `NoLeak`, `EtagMatchesBody`, `SoleDeleter`, `MapIntact`, `ImplementsDocument`, `EvictionReachesLimit`, `EvictsOnlyForSpace` | 265 590 | One stream at a time; documents of one, two and three pieces in two versions, reads of one or two pieces, a cache for four, four addresses: a read can end inside or at the end of a body, a document can change before, during and after its transfer, entries fit together or do not, and the one to evict is first, in the middle or last in the map. No walk has to drop two entries; what the code does then is `ErasedIterator`. |
| `Faulty` | `NoLeak`, `EntriesComplete`, `WholeAtEnd` | 162 545 | One stream, error pages that have a body, connections lost anywhere, and `useCache(false)` given early or late; servers without validators (with them `StaleAfterDrop` and `LateNoCache` apply). |
| `TwoStreams` | `PoolBound`, `NoStaleWrite`, `EntriesComplete`, `ImplementsDocument` | 181 033 | Two streams on documents of one and two pieces, cached or not, with and without a Content-Length, any order of calls, callbacks and messages; three handles for two streams so that a third could be hoarded. |
| `Contended` | `HandleOwnership`, `WorkSpared`, `EvictionReachesLimit` | 1 252 181 | Two streams, on different URLs or on the same one, two versions, a cache for one piece, so that every second copy that is stored evicts, or replaces one at its URL, while the other stream borrows, writes or reads. A reader takes at most two pieces (`MaxOut` in the module): those of one document, or of two that `ReplacedWhileBorrowed` has mixed, which would otherwise be read for ever. |
| `Redirects` | `ImplementsDocument` | 389 | A chain of two redirects whose pages have a body of one piece and a Content-Length, reads of one or two pieces, all faults, no cache (`DanglingEntry`, `RedirectBody` and `RedirectPage` apply to the other cases). |
| `Returning` | `ReadReturns` | 60 127 | Two streams, a redirect, lost connections, under `LiveSpec`. |
| `Tidying` | `TidyTypeOK`, `FlagTells`, `WholeInOneForm`, `AllReusable`, `ImplementsTidied` | 286 122 | Two streams open at once on different URLs, of an HTTP document, a file that changes, a file that does not and a `.smil`, each tidied or not and cached or not as `EveryUse` lists; failing files, streams closed at any point, read or unread; two pieces, so that a text can be cut and mixed. |
| `Html` | `HtmlTypeOK`, `HandlersGetCheckedOrNewer`, `SuccessIsWhole`, `FallbackMends`, `NothingLeft`, `ParseReturns` | 48 222 | Any sequence of calls of `parseHtml` on three documents: flawed in the first piece; a file, flawed in the last piece of its first version; one whose second version is flawed. The last two change at any time, inside a pass, between two passes or between calls. Room for two of the three in the cache, so that a tidied text is evicted and made again; under `HtmlLiveSpec`. |
| `Parsing` | `TypeOK`, `RefCounts`, `ScopedUri`, `OneEndDocument`, `ParsedWholeOrMark`, `FailureExplained`, `EndReportsStart` | 319 627 | Eight documents of up to nine events, chosen for one difficulty each (redeclared prefix, default namespace, a name that begins with a prefix, error, missing rest, trailing content, byte order mark, nothing but an error), any number of calls on one reader as long as at most two namespaces are left on the stack (`MaxStale`), eight addresses (enough: TLC finds no deadlock in `HasRoom`). |

What holds is conditional where the code's promise is: the custody of an entry that a
second stream has borrowed but not begun to use, several drops in one walk, the
holding buffer of a redirect, and redirects with caching are outside the passing runs
because the code does not keep the properties there; the next section shows it.
`WorkSpared`, `HandlersGetCheckedOrNewer` and `ParsedWholeOrMark` say what it keeps
where it does not keep `NoUseAfterFree`, `HandlersGetChecked` and `ParsedWhole`, for
each of which there is a counterexample.

Deadlock is checked in all runs but those of `MCTidyStream` and `MCHtmlPasses`:
after `DestroyInstance` the singleton's pointer is left dangling and nothing may be
opened, so that those systems stop.

`ImplementsTidied` and `FlagTells` are checked with an HTTP document that does
not change and transfers that do not fail, `FallbackMends` with documents that
have a Content-Length and validators, because the code does not keep them
otherwise.

`ScopedUri` is about calls that start with an empty stack and names that begin
with no other prefix in scope; `ElementUri` is the same without the condition.

### Fairness

Safety is checked under `Spec`, with no fairness. `LiveSpec` adds weak fairness
of each transfer and of the steps of the loop of `readBytes`. The loop runs
until it returns, so its own steps follow each other; curl ends each transfer,
by its data or by the timeouts the code sets (`CURLOPT_CONNECTTIMEOUT`,
`CURLOPT_LOW_SPEED_LIMIT`, `CURLOPT_LOW_SPEED_TIME`,
`DataStreamHandler.cpp:230-254`). Nothing obliges the application to call.
`HtmlLiveSpec` adds weak fairness of the steps of a call of `parseHtml`, inside
and outside its streams, and none of making a call.

## 4. Where the code and its documentation part

Each of these is a configuration in which TLC finds the named property violated.
`StolenMessage`, `WrongNamespace` and `FallbackLost` are regular runs with an entry
under `findings`; the rest are kept as configurations to be run by hand, with the
module of the second table or else `MCHttpStream` (`MCXmlReader` for the last
four of the first, of which three are one configuration, run with `-continue` to see
all three). Where the first column names a configuration with changes, it has no file
of its own.

| configuration | property | what happens |
|---|---|---|
| `DanglingEntry` | `MapIntact` | Redirect to a cached document: `bDeleteCache`, set for the object of the first URL (`HttpStream.cpp:119`), is still set when `cacheObject` is the map's; the destructor deletes an object the map keeps. |
| `StaleAfterDrop` | `WholeAtEnd` | A new version's ETag is stored before its body (`HttpStream.cpp:273`); the connection is lost; the old body now has the new ETag, is confirmed by a 304, and is read to its end as current. |
| `StolenMessage` | `WholeAtEnd` | `readBytes` takes the completion message of another stream's transfer and combines it with its own response code (`HttpStream.cpp:669`); one of the two ends early as if complete. |
| `TwoStreams` with `Validators = TRUE` | `ImplementsDocument` | The same with no failure at all: the message that ends a 304 is taken by the other stream, `bStreamFromCache` is never set, and the reader of the cached document is told the end before its first piece (`HttpStream.cpp:646-669`). |
| `WrongNamespace` | `ElementUri` | `uriForPrefix` is given the whole name and compares only the prefix's length (`XmlReader.h:114`): `memo` is in the namespace of a prefix `m` in scope; an inner `xmlns=` hides the prefix of `x:b`; an aborted parse's namespaces apply to the next document. |
| `StuckEntry` | `NoStuckEntry` | A stream closed in the middle of a new version of a cached document neither resets nor deletes the object; it stays BUSY and is never used or replaced again. |
| `LateNoCache` | `WholeAtEnd` | `useCache(false)` from `XmlReader::parse` (line 764) comes after the request was made conditional: a 304 has no body and the reader sees an empty document. |
| `FreedWhileBorrowed` | `NoUseAfterFree` | `checkCacheSize` frees an entry that an open stream has been given but not yet written or read, since its state is not BUSY. |
| `ReplacedWhileBorrowed` | `NoUseAfterFree` | Two streams on one URL: storing one's object deletes the entry the other holds. |
| `OverLimit` | `CacheBounded` | The loop of `checkCacheSize` stops at `begin()` without looking at it: the first entry is never freed. |
| `ErasedIterator` | `NoErasedIterator` | When two entries have to go, the loop decrements the iterator it has just erased. |
| `RedirectBody` | `NoDoubleFree` | The buffered body of a redirect is freed by `destroyConnection` and again by `resetBuffer`. |
| `RedirectPage` | `ImplementsDocument` | A redirect page without a length ends the call of `readBytes` that receives it: the caller gets the page as the beginning of the document (`HttpStream.cpp:428`, `603`). |
| `StaleLength` | `EntriesComplete` | The Content-Length of a redirect page outlives it and marks a part of a chunked document as complete. |
| `EncodedLength` | `EntriesComplete` | Content-Length counts encoded bytes, the stream decoded ones; equality in the middle stores a part. |
| `AbandonedRead` | `NoStaleWrite` | After an exception from `readBytes` the stream still wants bytes and writes them to the old buffer while another is read. |
| `Endless` | `ReadReturns` | Two URLs that redirect to each other: nothing counts redirects (`CURLOPT_MAXREDIRS` acts only with `FOLLOWLOCATION`, which is commented out). |
| `MarkAlone` | `ParsedWhole` | The byte order mark is taken off `bytes_read` (`XmlReader.cpp:809`), which ends the loop when it was all there was: `HttpStream::readBytes` returns as soon as it has anything (`HttpStream.cpp:602-603`), so a mark that comes in a packet of its own makes `parse` return true with the document unread. |
| `BrokenOff` | `NoLostNamespaces` | The destructor of `XmlReader` pops what an aborted parse left on the stack without `deref`; the namespaces are lost. |
| `BrokenOff` | `ContextFreed` | `parseHtml` returns with the parser context allocated when the application's `startDocument` refuses; the next call overwrites the pointer. |
| `BrokenOff` | `ParsedComplete` | `parseChunk` is never called with `terminate`; a document that stops in the middle of an element is parsed with success. |

Over the other streams and the passes of `parseHtml`:

| configuration | module | property | what happens |
|---|---|---|---|
| `FallbackLost` | `MCHtmlPasses` | `FallbackMends` | A document without Content-Length is never cached by `HttpStream`; its tidied text gets an object without ETag, so that the third pass is answered with the raw text, and the document is refused although its tidied text was accepted. The same happens to a document without ETag (`Validators = FALSE`). |
| `Unchecked` | `MCHtmlPasses` | `HandlersGetChecked` | A document changes between the check and the last pass, which opens the URL anew (`XmlReader.cpp:672`): the handlers get the new version, which nobody has checked. |
| `NewVersionUntidied` | `MCHtmlPasses` | `FallbackMends` | A cached tidied document changes on the server: the first pass breaks off its new version and leaves the entry busy (`StuckEntry`), nothing tidied can be stored at its URL any more, and every later call refuses the document. |
| `EmptySuccess` | `MCHtmlPasses` | `SuccessIsWhole` | With the reader's cache off the last pass, whose stream was made conditional before it was told, is answered with a 304 that has no body: the handlers see an empty document and `parseHtml` returns true. |
| `TruncatedTidied` | `MCHtmlPasses` | `SuccessIsWhole` | A lost connection under a TidyStream is taken for the end; the part is tidied, accepted, and the result is true. |
| `StaleTidyFlag` | `MCTidyStream` | `FlagTells` | Nothing clears `bTidyFlag` when an object is rewritten. |
| `SwallowedError` | `MCTidyStream` | `ImplementsTidied` | `TidyStream` logs the XmlError of its input and goes on with what it has. |
| `LeakedCopy` | `MCTidyStream` | `NoLeak` | After `useCache(false)` a TidyStream makes an object for the tidied text, does not store it, and does not delete it (`TidyStream.cpp:262`). |
| `Tidying` with `Openings <- CachedUse` | `MCTidyStream` | `NoLeak` | `UnreadTidied`: a TidyStream that is closed before its first read does not delete its input (`TidyStream.cpp:60`). |
| `Tidying` with `Openings <- CachedUse`, `Abandons = FALSE` | `MCTidyStream` | `ImplementsTidied` | `OutdatedCopy`: the cached copy of a file is not compared with the file. |
| `Tidying` with `UrlLength <- FourLetters` | `MCTidyStream` | `ImplementsTidied` | `npos == length() - 5` for a URL of four characters, which is therefore not tidied (`TidyStream.cpp:47`). |
| `SharedCopy` | `MCTidyStream` | `WholeInOneForm` | Two streams on one URL read one object, each moving the other's position. |
| `CachedAnyway` | `MCTidyStream` | `NotCachedUnasked` | `newStream` does not hand `useCache` on to the TidyStream, which stores what was asked for without caching (`DataStreamHandler.cpp:209`). |

## 5. What is proved

For every value of the constants (any number of streams, URLs, handles, objects,
documents; any sizes, limits, framings, faults, modes):

| theorem | statement |
|---|---|
| `HttpStreamProofs!TypeCorrect` | `Spec => []TypeOK` |
| `HttpStreamProofs!OwnershipCorrect` | `Spec => []HandleOwnership` |
| `HttpStreamProofs!PoolCorrect` | `Spec => []PoolBound` |
| `SequentialProofs!SequentialCorrect` | `Sequential => []SoleDeleter` |
| `SequentialProofs!MapCorrect` | `Sequential => []MapIntact` |
| `SequentialProofs!NoFreedObjectUsed` | `Sequential => []NoUseAfterFree` |
| `SequentialProofs!NothingLeaks` | `Sequential => []NoLeak` |
| `SequentialProofs!EvictionCorrect` | `Sequential => EvictionReachesLimit` |
| `SequentialProofs!EvictionNeeded` | `Sequential => EvictsOnlyForSpace` |
| `SequentialProofs!WorkIsSpared` | `NoRedirection /\ Spec => WorkSpared`: any number of streams at once |
| `CompleteProofs!EntriesWhole` | `Sequential /\ TrueLengths => []EntriesComplete` |
| `CompleteProofs!EtagsMatch` | `Sequential /\ Lossless => []EtagMatchesBody` |
| `InterleavedProofs!NothingStale` | `Interleaving => []NoStaleWrite` |
| `InterleavedProofs!WholeDocuments` | `Interleaving => []WholeAtEnd` |
| `InterleavedProofs!InterleavedImplements` | `Interleaving => ImplementsDocument`: `HttpStream` refines `DocumentStream` |
| `XmlReaderProofs!EndDocumentCorrect` | `Spec => []OneEndDocument` |
| `XmlReaderProofs!LastErrorCorrect` | `Spec => []FailureExplained` |
| `XmlReaderProofs!ParsedWholeCorrect` | `Spec => []ParsedWholeOrMark` |
| `XmlReaderProofs!ReaderTypes` | `Spec => []TypeOK` (of `XmlReader`) |
| `XmlReaderProofs!RefCountsCorrect` | `Spec => []RefCounts` |
| `XmlReaderProofs!ScopedUriCorrect` | `Spec => []ScopedUri` |
| `XmlReaderProofs!EndReportsStartCorrect` | `Spec => EndReportsStart` |
| `TidyProofs!TidyTypesCorrect` | `TidySpec => []TidyTypeOK` |
| `TidyProofs!HtmlTypesCorrect` | `HtmlSpec => []HtmlTypeOK` |
| `TidyProofs!EveryKindSound` | `TidySequential => [](NoUseAfterFree /\ MapIntact /\ NoLeak)` |
| `TidyProofs!NothingLeftCorrect` | `TidySequential => []NothingLeft` |
| `TidyProofs!ParsesLeaveNothing` | `HtmlSequential => []NothingLeft` |
| `TextProofs!FlagTellsCorrect` | `TidySequential /\ SteadyServers /\ SteadyUse(Openings) => []FlagTells` |
| `TextProofs!OneFormCorrect` | `TidySequential /\ SteadyServers /\ SteadyUse(Openings) => []WholeInOneForm` |
| `TextProofs!AllReusableCorrect` | `TidySequential /\ SteadyServers /\ SteadyUse(Openings) => []AllReusable` |
| `TextProofs!HandlersCorrect` | `SteadyParses => []HandlersGetCheckedOrNewer` |
| `TextProofs!SuccessCorrect` | `SteadyParses => []SuccessIsWhole` |
| `TextProofs!FallbackCorrect` | `SteadyParses => []FallbackMends` |
| `TextProofs!TidiedImplements` | `TidySequential /\ SteadyServers /\ SteadyUse(Openings) /\ OnlySmilPasses /\ TidiedStay => ImplementsTidied`: `TidyStream` refines `DocumentStream` |

`Sequential` is `OneAtATime /\ NoRedirection /\ Spec`: one stream, and no URL
redirects.
`Interleaving` is `ReliableServers /\ Unconditional /\ Spec`: any number
of streams, transfers that do not fail, no redirects, and no conditional requests,
either because servers send no validators or because the cache is not used.
`TrueLengths` says that no server sends a Content-Length other than the number of
bytes curl hands over, `Lossless` that moreover no connection is lost and responses
carry validators. `TidySequential` is `Sequential` for streams of every kind (`TidySpec`)
that are read before they are closed (`~Abandons`) and, if they tidy, are told to
cache (`KeepsTidied`). `HtmlSequential` is the same for calls of `parseHtml` on a reader
whose cache is on; there the two last premises are not needed as such, because
the passes read every stream they open and hand the cache setting on.
`SteadyServers` says that no transfer fails (files may), that every response has a
Content-Length and validators, and that only files change; `SteadyUse` that every stream which
is tidied or cached is told to use the cache, when it is made and afterwards (streams that are
neither may be mixed in). `SteadyParses` is `HtmlSequential /\ SteadyServers` for documents that
`TidyStream` does not pass on as they are (`NothingPassesThrough`: a `.smil` is not mended,
so that a flawed one is refused, as it should be). `OnlySmilPasses` says that the test of the
constructor, in `size_t`, takes those URLs for `.smil` that are, which a URL of four characters
refutes (`Tidying` with `FourLetters`). `TidiedStay` says that what is tidied is not a file that changes, whose copy
nobody compares with it: `OutdatedCopy` is the counterexample.

**Types.** `TypeOK` alone is not inductive: the URL of a stream must be a URL
while it is open, and the stream inside `readBytes` must be open. `TypeInv` adds
that (`StreamsSetUp`, `CurrentExists`); a lemma per data operator gives its
range, one per action its preservation.

**Handles.** `HandleOwnership /\ PoolBound` is inductive over `TypeOK`. The
lemma `OthersKeepHandles` reduces `Next` to the two actions that move handles;
the count goes through the cardinality of the set of open streams.

**Custody of cache objects.** The four properties under `Sequential` are
about the same thing and only inductive together, as `Custody`. They also need
`OnlyBorrowersRevalidate`: a stream whose object is its own never sent a
validator, so it is never told to read from the cache, so it never resets an
object it must delete. `CustodyKept` deals with all the steps that free and move
nothing; the destructor (store, reset, delete or nothing, with eviction) and the
constructor are done by cases. Both premises are needed: `FreedWhileBorrowed`
and `DanglingEntry` are counterexamples without the one and the other.

**Eviction.** The size of the cache and the loop of `checkCacheSize` are folds over
finite sets, so first `FoldExists` of `RecursionProofs` shows that what the community
module defines by a choice exists, for folds that take out any chosen element (`WalkLoop`,
`SizeLoop`). The size of a set of entries then does not depend on the order in which it is added
up (`SizeByChoice`), and is the sum without an entry and that entry's (`SizeWithout`). `Walked` is the
loop's invariant, on the entries not looked at yet: what is gone was idle and past the
first, the size is what is left, everything passed over while the cache was too big was in use,
and the last one dropped was needed. `WalkTurn` keeps it, `WalkDone` shows by a least counterexample
that it holds of the whole map, and `CheckCacheSizeLeaves` is what it comes to at the end. The steps other than
a destructor that stores take nothing out of the map (`MapElsewhere`); that the map is finite
(`FiniteCache`) is an invariant of its own, since `Url` need not be. A walk that drops several
entries is undefined in the code (`ErasedIterator`); the model records that and goes on at the entry
before, and of such walks the theorems speak under this reading only.

**Several streams at once.** Custody as above fails when two streams share the cache:
what one has borrowed and not begun to use may go. What does hold for any number of
streams, `WorkSpared`, rests on `SharedInv`. Two streams never own the same object, nor
one that is in the map (`OwnedApart`); what a stream has borrowed, and is writing or
reading, is in the map at the URL it was found at (`BorrowedThere`). So a destructor
that deletes its own object deletes nobody else's, and one that stores replaces or evicts
only what is not BUSY (`DestroyedSpares`, `EvictionSpares`). `BorrowedThere` allows for a
pointer whose object is gone, since `FreedWhileBorrowed` leaves such pointers; no new object is made at
an address some stream still points to (`Unused`), so that a stale pointer stays one. Redirects
are excluded (`NothingMoved`: no answer is a 302): in `DanglingEntry` one deletes what the map, and
through it another stream, has. Nothing is assumed of faults, sizes, versions, framings or of which
URLs are shared.

**What is left in the cache.** `CompleteInv` says of an open stream what it tells of
its object (`Tells`): if the stream stores, the object holds exactly what was
received, or is untouched and nothing was received, and this and what is still to
come make up one version; the announced length is none or that of the document; and
`bTransferFinished` means that all of it was returned. The hard case is that of a
length nobody announced, which the code takes for 0 (`HttpStream.cpp:49`, `886`): then a
call that ends with nothing returned marks the transfer as finished, and this is
right only because such a call ends when nothing is running any more, and after a
lost connection the reader is told (`FailuresAnnounced`) before it could get there.
Hence the destructor stores whole documents, and all other steps leave copies as
they were (`Kept`). `EncodedLength` is a counterexample without `TrueLengths`,
`StaleLength` one with a redirect.

**Validators.** An entry may hold the body of one version and the ETag of another,
from the head of the response on, but only while the stream that is replacing it is
open (`CopiesMatch`). That stream knows what it is writing (`StreamsReplace`), and
between calls it either has received something, so that the object is being written
and cannot be taken for a copy, or has finished (`RestingWritten`): there is no point
at which the application can close it and leave the two apart. `StaleAfterDrop` is a
counterexample when a connection is lost in between.

**Where the pieces are.** `FlowInv` says of every open stream that what its reader
has, what is in the caller's buffer, what is in the holding buffer and what is
still to come make up one version of its document, none older than the one current
at the opening, in this order (`Flow`). That is inductive only together with who
wants bytes: nobody but the stream inside `readBytes` (`OnlyCurrentWants`), and that
one, while it wants more, has emptied its holding buffer and is not about to return
(`CurrentWants`), so that a callback for any other stream appends to a holding
buffer, and one for the current stream to the caller's. One lemma per action shows
its part of `Flow` for the stream it is about, and a frame lemma keeps it for all
others. `NoStaleWrite` and `WholeAtEnd` are consequences. For the refinement,
opening, returning from `readBytes`, closing and publishing are shown to be the
steps of `DocumentStream` of that name, and everything that curl does between them
to be stuttering. The premises are needed: `StolenMessage` and `AbandonedRead` are
counterexamples with failures, `LateNoCache` and `TwoStreams` with validators with
conditional requests.

**Streams of every kind.** A step of the composition is a step of `HttpStream` with the
file and tidy parts beside it, or one of these alone (`ReadingStep`, `StreamsStep`), so
that the types and the custody of `HttpStream` are lifted through the lemmas they were proved by.
What is new is who holds the input: a slot has one at a time (`SlotSound`), a connection, a
file or a copy; a TidyStream that has consumed its input has deleted it; a stream that
reads a copy reads the one the map has at its URL. This with the types, the custody
of `HttpStream` and `NothingAfter` (after `DestroyInstance` every stream is closed and
no object exists) is `CustodyInv`, which is inductive. A tidied text replaces the copy at
its URL, which frees the old one: nobody else can be reading it, since one stream is
open. `LeakedCopy` is a counterexample without `KeepsTidied`, `UnreadTidied`
(a variant of `Tidying`, above) without `~Abandons`. For `parseHtml` the lemma `PassesRead` shows that a pass ends only when its
stream has told the end or an error, which an unread stream has not.

**What the texts are.** `TextsInv` says of every entry of the map that it is whole, that its
flag tells whether it is tidied, and that its ETag is that of the current version
(`EntriesSound`); an entry that is being read has a reader (`OnlyReadersOpen`). It is inductive only
together with what every open stream has read and still will: a copy, up to its position
(`CopyRead`); a transfer, whose pieces received, held back and to come are the document
(`Fetches`, which uses the `Flow` of `InterleavedProofs`); a 304 that is answered from the copy; a file; and for
a TidyStream what it has asked of its input, and then the tidied text in its buffer or in the
map (`SlotTexts`). The turning point is the destructor: it stores only what its stream has read to the
end, by `CompleteProofs`' argument about lengths, so that an entry is a whole raw document until
a TidyStream replaces it by a whole tidied one. Without `SteadyServers`, `StaleAfterDrop`,
`TruncatedTidied` and `StaleTidyFlag` are counterexamples; without `SteadyUse`, `LateNoCache`.

**What the passes are given.** `HtmlInv` adds the call of `parseHtml` to that. The key is `Offer`: what a
pass that tidies, or one that does not, would be given at a URL if it began now, which is the tidied
text once that is in the map. While a pass is under way what it has fed is a beginning of what its
stream has told (`PassOpen`); between the passes, what the check accepted is what the next one will be offered,
since nothing else is open that could store or evict (`PassTexts`), unless a version of the document has come
out during the call (`CameOutAfter`), which is then the one it is offered; and the result of a call
that has ended is what the last pass was fed to its end (`Results`). `FallbackLost`,
`NewVersionUntidied`, `EmptySuccess` and `TruncatedTidied` are counterexamples without the premises.

**What a reader of tidied documents sees.** `TidiedInv` adds to `TextsInv` that the copy of a
document that stays is that document, raw or tidied (`CopiesShown`), and of each open TidyStream
(`Delivers`) that the text it is about to mend is one of the two, and that one which passes its input on has
passed on what the input had returned before the call under way, and tells what it tells (`PassedOn`). Raw and
tidied pieces differ (`FormsDiffer`), so that the flag of an entry tells which of the two it is, and
what is returned from the buffer, from a tidied copy or from the input is a part of the tidied document
(`TidiedShown`). `CallerReads` says that a call is only under way for a reader that has neither the end nor an
error. Making a TidyStream, the return of `readBytes` with and without data, its -1, deleting and
publishing are then the steps of `DocumentStream` of that name (`OpenShows`, `ReturnShows`,
`FailureShows`, `CloseShows`, `TidiedPublished`), and all that it does inside `Perform`, like every step of a
stream that is not tidied, is stuttering. Files may fail: what a -1 has cut off stays cut off.
`SwallowedError` is the counterexample for an input that throws.

**The parse loop.** `EndDocumentInv` ties the number of `endDocument` calls to the flag
while `parse` runs, and says that libxml makes that call only together with an
error, with nothing of the chunk left, so that no second one can come;
`LastErrorInv` says that a recorded error, and a failing return, have set the
last error. Both are inductive with the types of the control variables.

**Success.** `WholeSoFar` says that in the pass of the application's handlers, as long
as nothing is wrong, what libxml and the stream have left is the document without
its first n events, among these is no error, and the number of elements open is
the starts among them less the ends (`Heard`). Each action that takes one event
advances n (`HeardNext`), each read cuts the rest in two (`CutInTwo`) and loses
at most the byte order mark, and a `true` return is only possible with nothing left
(`WholeOnSuccess`). It rests on `NestingAssumption`, which is libxml's: it reports no end
without a start. Whether the starts have ends is another matter (`ParsedComplete`).

**Namespaces.** Look-up and `deref` are recursive functions over chains of `inner`
references in a heap. A recursive function is by definition a choice, so that
the first lemmas, with those of `RecursionProofs`, show that one with the equation exists: chains go up strictly
(a namespace is made after the one it is inside of), the heap is finite, and a
least counterexample (`WFMin` of the library, over the order of the
naturals) contradicts the equation. From there `Deref` is shown to free exactly the
namespaces whose last reference goes (`Fates`), and nothing that the stack or a living
namespace still refers to. `ReaderInv` adds to `ParseInv` and `WholeInv` of the parse loop
that what is still to come of the document has no more ends than elements are open
(`BalanceInv`), so that no end pops what an earlier call has left; that the stack is as high
as the open elements say above that, and counts are those of the references
(`NamespaceInv`); and, for a call that began on an empty stack, that each open element's
place on the stack has in scope what the elements up to it have declared (`ScopeInv`),
whence look-up finds the innermost declaration. `ScopedUri`, `RefCounts` and `EndReportsStart` are consequences, over aborted
parses, stops and refusals. `WrongNamespace` is the counterexample for names that are not
unambiguous.

Assumptions: those named in `ASSUME`s of the modules, all evaluated by TLC in
the runs. They say that constants have their types; `None` is no handle, object,
URL, document or result; a name begins with the empty prefix and with its own;
no document has more ends than starts at any point.

**Only model-checked.** Liveness (`ReadReturns`, `ParseReturns`),
which is beyond the prover; the completeness of copies with several streams at once; `ImplementsDocument`
where servers fail, redirect or answer 304; the texts of `TidyStream` and `ImplementsTidied` with
several streams at once, or with streams that are not told to cache; the passes of `parseHtml` over an HTTP
document that changes during the call (files do in the theorems).

## 6. Not modelled

* A `TidyStream` that is read again after its input returned -1: the input has
  been deleted and is still pointed to. A TidyStream that fails to write its text
  into the cache object (`TidyStream.cpp:266`). The tags of a text that libtidy
  changes: a piece is raw or tidied.
* A file that is written to while a stream has it open.
* A second `Instance()` after `DestroyInstance`: it returns the deleted object.
* An object made at the address of one that has been freed while a stream still points
  to it (`Unused`): the properties, `WorkSpared` among them, tell a stale pointer from
  a new object. What goes wrong is the stale pointer, which `NoUseAfterFree` is about.
* `iHttpCode` and `lContent_length` of `CacheObject`, which nothing depends on; zlib
  errors; allocation failures.
* Credentials in URLs, the debug callback, messages, the settings of curl
  handles, curl's lock callbacks (one thread).
* `transcode`, `release`, line and column numbers, comments, a reader without a
  content handler (nothing is reported then).
* `XmlAttributes`: a view of the array libxml passes to a callback, without state.
  `split`, which would have resolved prefixes, returns at once; its constructor
  stops counting at an attribute without value (line 78), and `localName` subtracts
  its pointers in the wrong order (line 103). `XmlDefaultHandler` and `XmlError`:
  callbacks that answer true, and a value.
* A first read of one or two bytes, which `HttpStream` may return: `parse` then looks
  for the byte order mark in the next read that is long enough, that is in the middle of
  the document, and removes what looks like one. The mark is one event of the model's
  texts, which a read has whole or not at all; `HtmlPasses` has texts without a mark.

## 7. Plan

1. (done) `CacheObject`, `DataStreamHandler`, `HttpStream`, `DocumentStream`;
   types, handles and custody proved.
2. (done) `XmlNamespace`, `XmlReader`; the two control properties proved, and that
   success means the whole document.
3. (done) `FileStream`, `TidyStream`, `HtmlPasses`; the data flow of any number of
   streams and the refinement of `DocumentStream` proved for reliable servers; the
   completeness of entries and their validators proved for one stream at a time.
4. (done) Types of all modules, namespaces, the custody of objects under every
   kind of stream, eviction and the holding buffer proved.
5. (done) The texts of streams of every kind and of the passes of `parseHtml` proved for one
   stream at a time and servers that keep to what they say.
6. (done) The refinement of `DocumentStream` by tidied streams, one at a time.
7. Left: the refinement of `DocumentStream` by conditional requests, and the texts of several
   streams that share a cache.
