----------------------------- MODULE PageReader -----------------------------
(***************************************************************************)
(* page_reader::next_page (column_chunk_reader.cc) over a peekable_stream: *)
(* read_thrift_from_stream (thrift_serdes.hh) peeks more and more bytes    *)
(* until a page header of unknown size can be deserialized and consumes    *)
(* it; then the contents of the page are peeked and consumed, and handed   *)
(* out as a view into the buffer of the stream.                            *)
(***************************************************************************)
EXTENDS PeekableStream, Sequences

CONSTANTS
    Layouts,         \* column chunks: sequences of pages, which the source
                     \* may end in the middle of
    ExpectedHeader,  \* expected_size of read_thrift_from_stream: 1024
    MaxHeader        \* max_allowed_size: 16 MiB

ASSUME HeaderAssumption ==
    /\ ExpectedHeader \in Nat \ {0} /\ MaxHeader \in Nat
    /\ ExpectedHeader <= MaxHeader /\ MaxHeader <= MaxPeek

(* A page: where it begins, the sizes of its header and contents, and      *)
(* whether the header can be deserialized and holds a size.                *)
Page == [at : Nat, header : Nat \ {0}, contents : 0..MaxPeek,
         parses : BOOLEAN, sized : BOOLEAN]

PageEnd(page) == page.at + page.header + page.contents

(* Pages follow each other without a gap, and the source has nothing else. *)
ASSUME LayoutsAssumption ==
    \A layout \in Layouts :
        /\ layout \in Seq(Page) /\ layout # <<>>
        /\ layout[1].at = 0
        /\ \A k \in 2..Len(layout) : layout[k].at = PageEnd(layout[k - 1])
        /\ \A j, k \in DOMAIN layout :
              j < k => PageEnd(layout[j]) <= layout[k].at
        /\ Length <= PageEnd(layout[Len(layout)])

VARIABLES
    pages,     \* the column chunk
    pc,        \* where the reader is in next_page
    expected,  \* expected_size
    read       \* pages handed out

readerVars == <<pages, pc, expected, read>>

ReaderInit ==
    /\ Init
    /\ pages \in Layouts
    /\ pc = "idle"
    /\ expected = ExpectedHeader
    /\ read = 0

-----------------------------------------------------------------------------
(* Where the first k pages end.                                            *)
Through(k) == IF k = 0 THEN 0 ELSE PageEnd(pages[k])

HeaderEnd(k) == pages[k].at + pages[k].header

(* The page whose header begins with the first byte seen; none if the      *)
(* stream is out of step.                                                  *)
PagesAt(byte) == {k \in DOMAIN pages : pages[k].at + 1 = byte}

SeenPage == CHOOSE k \in PagesAt(buffer[view.at]) : TRUE

(* Deserialization meets the end of the bytes seen before that of the      *)
(* header.                                                                 *)
HeaderCut == view.len < pages[SeenPage].header

-----------------------------------------------------------------------------
StartPeek(n) ==
    IF n = 0 THEN PeekNothing ELSE PeekBuffered(n) \/ BeginPeek(n)

(* The peek of the stream goes on while the reader waits for it.           *)
StreamStep ==
    /\ (\E count \in 1..MaxPeek : ReadSome(count)) \/ ReadNothing \/ EndPeek
    /\ UNCHANGED readerVars

NextPage ==
    /\ pc \in {"idle", "page"}
    /\ StartPeek(ExpectedHeader)
    /\ pc' = "header"
    /\ expected' = ExpectedHeader
    /\ UNCHANGED <<pages, read>>

EndOfChunk ==
    /\ pc = "header" /\ Idle
    /\ view.len = 0
    /\ pc' = "eof"
    /\ UNCHANGED <<pages, expected, read, vars>>

(* Fault: all that was seen is consumed, not what was deserialized.        *)
ConsumeSeen ==
    /\ pc = "header" /\ Idle
    /\ view.len > 0
    /\ ~HeaderCut
    /\ pages[SeenPage].parses
    /\ Advance(view.len)
    /\ pc' = "consumed"
    /\ UNCHANGED <<pages, expected, read>>

ConsumeHeader ==
    /\ pc = "header" /\ Idle
    /\ view.len > 0
    /\ ~HeaderCut
    /\ pages[SeenPage].parses
    /\ Advance(pages[SeenPage].header)
    /\ pc' = "consumed"
    /\ UNCHANGED <<pages, expected, read>>

HeaderMalformed ==
    /\ pc = "header" /\ Idle
    /\ view.len > 0
    /\ ~HeaderCut
    /\ ~pages[SeenPage].parses
    /\ pc' = "failed"
    /\ UNCHANGED <<pages, expected, read, vars>>

(* Fault: what is peeked does not grow with what is expected.              *)
RetryAsBefore ==
    /\ pc = "header" /\ Idle
    /\ view.len > 0
    /\ HeaderCut
    /\ view.len >= expected
    /\ 2 * expected <= MaxHeader
    /\ StartPeek(ExpectedHeader)
    /\ expected' = 2 * expected
    /\ UNCHANGED <<pages, pc, read>>

(* "The serialized structure was bigger than expected."                    *)
RetryHeader ==
    /\ pc = "header" /\ Idle
    /\ view.len > 0
    /\ HeaderCut
    /\ view.len >= expected
    /\ 2 * expected <= MaxHeader
    /\ StartPeek(2 * expected)
    /\ expected' = 2 * expected
    /\ UNCHANGED <<pages, pc, read>>

(* The stream has ended, or the header is larger than allowed.             *)
HeaderFails ==
    /\ pc = "header" /\ Idle
    /\ view.len > 0
    /\ HeaderCut
    /\ view.len < expected \/ 2 * expected > MaxHeader
    /\ pc' = "failed"
    /\ UNCHANGED <<pages, expected, read, vars>>

PeekContents ==
    /\ pc = "consumed"
    /\ pages[read + 1].sized
    /\ StartPeek(pages[read + 1].contents)
    /\ pc' = "contents"
    /\ UNCHANGED <<pages, expected, read>>

(* "Negative compressed_page_size in header": the header is consumed.      *)
NegativeSize ==
    /\ pc = "consumed"
    /\ ~pages[read + 1].sized
    /\ pc' = "failed"
    /\ UNCHANGED <<pages, expected, read, vars>>

DeliverPage ==
    /\ pc = "contents" /\ Idle
    /\ view.len >= pages[read + 1].contents
    /\ Advance(pages[read + 1].contents)
    /\ pc' = "page"
    /\ read' = read + 1
    /\ UNCHANGED <<pages, expected>>

(* Fault: the rest of the contents is waited for.                          *)
ContentsAwaited ==
    /\ pc = "contents" /\ Idle
    /\ view.len < pages[read + 1].contents
    /\ StartPeek(pages[read + 1].contents)
    /\ UNCHANGED readerVars

ContentsFail ==
    /\ pc = "contents" /\ Idle
    /\ view.len < pages[read + 1].contents
    /\ pc' = "failed"
    /\ UNCHANGED <<pages, expected, read, vars>>

ReaderNext ==
    \/ StreamStep
    \/ NextPage
    \/ EndOfChunk
    \/ ConsumeHeader
    \/ HeaderMalformed
    \/ RetryHeader
    \/ HeaderFails
    \/ PeekContents
    \/ NegativeSize
    \/ DeliverPage
    \/ ContentsFail

ReaderSpec == ReaderInit /\ [][ReaderNext]_<<vars, readerVars>>

-----------------------------------------------------------------------------
(* The values of expected_size: ExpectedHeader, and twice each of them     *)
(* that is allowed.                                                        *)
ClosedSizes ==
    {S \in SUBSET (1..MaxHeader) :
        /\ ExpectedHeader \in S
        /\ \A n \in S : 2 * n <= MaxHeader => 2 * n \in S}

Tried == {n \in 1..MaxHeader : \A S \in ClosedSizes : n \in S}

(* The reader is at one of its steps, and inside the chunk.                *)
ReaderTypeOK ==
    /\ TypeOK
    /\ pages \in Layouts
    /\ pc \in {"idle", "header", "consumed", "contents", "page", "eof",
               "failed"}
    /\ expected \in Tried
    /\ read \in 0..Len(pages)

(* The page handed out is the next one of the chunk, and its contents are  *)
(* the bytes of that page while they are used, although the stream has     *)
(* been advanced past them.                                                *)
PagesInOrder ==
    pc = "page" =>
        /\ view.len = pages[read].contents
        /\ \A i \in 1..view.len :
              buffer[view.at + i - 1] = HeaderEnd(read) + i

(* The reader never takes the middle of a page for a header, so that the   *)
(* header it deserializes is that of the next page.                        *)
InStep ==
    pc = "header" /\ Idle /\ view.len > 0 =>
        PagesAt(buffer[view.at]) = {read + 1}

(* The chunk ends for the reader exactly where the source ends between two *)
(* pages, and it gives up only on a page that the source does not have all *)
(* of, or whose header is too large, malformed or without a size.          *)
EndedRight ==
    /\ pc = "eof" => Length = Through(read)
    /\ pc = "failed" =>
          \/ Length < Through(read + 1)
          \/ \A n \in Tried : n < pages[read + 1].header
          \/ ~pages[read + 1].parses
          \/ ~pages[read + 1].sized

(* The reader comes to the end of every chunk.                             *)
ReaderEnds == (pc = "idle") ~> (pc \in {"eof", "failed"})
=============================================================================
