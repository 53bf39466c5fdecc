--------------------------- MODULE HttpReceive ---------------------------
(***************************************************************************)
(* The external httpreceive: puts the responses of an HTTP server together *)
(* again from the lists of bytes that a tcpclient puts out, which TCP has  *)
(* cut anywhere.  x_state is 0 while the header of a response is collected *)
(* in x_status_buf, 1 while its message is passed on.                      *)
(*                                                                         *)
(* What is received is a sequence of cells: CR, LF, a status line, a       *)
(* header field, a byte of a message.  A line is one cell: nothing tells   *)
(* whether it was cut as well.                                             *)
(***************************************************************************)
EXTENDS ListParts

CONSTANTS
  Responses,      \* what a server may answer, see below
  STATUS_BUF_LEN, \* cells of x_status_buf
  BufLength,      \* characters of buf, on the stack: 256
  MaxResponses    \* bound: responses sent

(***************************************************************************)
(* A response has a status line that begins with HTTP/1.1 or HTTP/1.0, or  *)
(* has not (code 0), and the length of its reason phrase; header fields,   *)
(* each with its value and the length of its text, which is the longer one *)
(* of its name and its value; and the length of its message.               *)
(***************************************************************************)
ASSUME HttpAssumption ==
  /\ STATUS_BUF_LEN \in Nat /\ BufLength \in Nat /\ MaxResponses \in Nat
  /\ \A r \in Responses :
       /\ r.code \in Nat /\ r.reason \in Nat /\ r.message \in Nat
       /\ r.fields \in Seq([name : {"Content-Length", "content-length", "other"},
                            value : Nat, length : Nat])

VARIABLES
  x_state, x_remaining, x_status_buf,
  list,           \* what is left of the list that is being processed,
  inList,         \* if one is
  out,            \* what came out: status codes, fields and bytes of messages
  stream,         \* cells sent that no list has brought yet
  overrun,        \* something was written behind the end of buf or of x_status_buf:
                  \* what the program does then is not defined, and it is left here
  \* history
  answered,       \* the responses sent
  plain           \* all of them were of the kind httpreceive is made for

hvars == <<x_state, x_remaining, x_status_buf, list, inList, out, stream, overrun,
           answered, plain>>

Cell(what, name, value, length) ==
  [what |-> what, name |-> name, value |-> value, length |-> length]
CR == Cell("CR", "", 0, 0)
LF == Cell("LF", "", 0, 0)
Byte == Cell("byte", "", 0, 0)
Status(r) == Cell("status", "", r.code, r.reason)
Field(field) == Cell("field", field.name, field.value, field.length)

Line(cell) == <<cell, CR, LF>>
Header(r) ==
  Line(Status(r)) \o FlattenSeq([i \in DOMAIN r.fields |-> Line(Field(r.fields[i]))])
    \o <<CR, LF>>
Message(r) == [i \in 1..r.message |-> Byte]

HInit ==
  /\ x_state = 0 /\ x_remaining = 0 /\ x_status_buf = <<>>
  /\ list = <<>> /\ inList = FALSE /\ out = <<>> /\ stream = <<>> /\ overrun = FALSE
  /\ answered = <<>> /\ plain = TRUE

-----------------------------------------------------------------------------
(* The server.                                                             *)

\* Made for: a well-formed header that x_status_buf holds with a 0 behind it, of which
\* buf holds every part so, with at least one field, and with a Content-Length, spelled so,
\* that is the length of the message; without one there is no message.  The answer to a
\* HEAD request is not of this kind when it has the Content-Length of a message that does
\* not follow.
Plain(r) ==
  /\ r.code # 0 /\ r.fields # <<>>
  /\ Len(Header(r)) < STATUS_BUF_LEN
  /\ r.reason < BufLength /\ \A i \in DOMAIN r.fields : r.fields[i].length < BufLength
  /\ LET lengths == {i \in DOMAIN r.fields : r.fields[i].name = "Content-Length"}
     IN  IF r.message = 0 THEN \A i \in lengths : r.fields[i].value = 0
         ELSE \E i \in lengths : lengths = {i} /\ r.fields[i].value = r.message

\* The patch asks again when it has the whole answer, or sooner.
Respond(r) ==
  /\ Len(answered) < MaxResponses
  /\ stream' = stream \o Header(r) \o Message(r)
  /\ answered' = Append(answered, r)
  /\ plain' = (plain /\ Plain(r) /\ stream = <<>> /\ ~inList)
  /\ UNCHANGED <<x_state, x_remaining, x_status_buf, list, inList, out, overrun>>

-----------------------------------------------------------------------------
(* httpreceive_list.                                                       *)

Receive(n) ==
  /\ ~inList
  /\ list' = SubSeq(stream, 1, n)
  /\ stream' = SubSeq(stream, n + 1, Len(stream))
  /\ inList' = TRUE
  /\ UNCHANGED <<x_state, x_remaining, x_status_buf, out, overrun, answered, plain>>

CRLFCRLF == <<CR, LF, CR, LF>>

\* What is made of a complete header: the status code and the fields, or an error; a
\* header without a field gives one that has no name, with a number of no meaning.
Parsed(header) ==
  LET fields == Omit(header, {i \in DOMAIN header : header[i].what # "field"})
  IN  IF header[1].what # "status" \/ header[1].value = 0 THEN <<>>
      ELSE <<header[1]>> \o (IF fields = <<>> THEN <<Cell("field", "", 0, 0)>> ELSE fields)

\* The 0 behind the header is written behind x_status_buf, or a part of the header is
\* copied into buf that does not fit there with a 0 behind it: no length is checked.
Overruns(header) ==
  \/ Len(header) = STATUS_BUF_LEN
  \/ \E i \in DOMAIN Parsed(header) : Parsed(header)[i].length >= BufLength

\* x_remaining is set by each Content-Length, and is else what it was.
Announced(parsed) ==
  LET lengths == {i \in DOMAIN parsed : parsed[i].name = "Content-Length"}
  IN  IF lengths = {} THEN x_remaining ELSE parsed[Max(lengths)].value

HeaderIsComplete(buf) == Len(buf) > 4 /\ IsSuffix(CRLFCRLF, buf)

\* A byte of the header.  With one that overruns a buffer the model ends: what such a
\* step puts out means nothing.
StatusByte ==
  LET buf == Append(x_status_buf, Head(list)) IN
  /\ inList /\ x_state = 0 /\ list # <<>>
  /\ list' = Tail(list)
  /\ overrun' = (HeaderIsComplete(buf) /\ Overruns(buf))
  /\ \/ /\ HeaderIsComplete(buf)
        /\ x_state' = 1
        /\ x_status_buf' = buf
        /\ out' = out \o Parsed(buf)
        /\ x_remaining' = Announced(Parsed(buf))
     \/ /\ ~HeaderIsComplete(buf) /\ Len(buf) < STATUS_BUF_LEN
        /\ x_status_buf' = buf
        /\ UNCHANGED <<x_state, x_remaining, out>>
     \/ /\ ~HeaderIsComplete(buf) /\ Len(buf) >= STATUS_BUF_LEN \* "status buffer full"
        /\ x_status_buf' = <<>> /\ x_remaining' = 0
        /\ UNCHANGED <<x_state, out>>
  /\ UNCHANGED <<inList, stream, answered, plain>>

\* Mutant: ready for the next header whatever is still to come.
MessageInOneList ==
  /\ inList /\ x_state = 1
  /\ x_remaining' = 0
  /\ out' = out \o list
  /\ x_status_buf' = <<>> /\ x_state' = 0
  /\ list' = <<>> /\ inList' = FALSE
  /\ UNCHANGED <<stream, overrun, answered, plain>>

\* The rest of the list is the message, or a part of it, or more than it.
MessagePart ==
  /\ inList /\ x_state = 1
  /\ x_remaining' = IF Len(list) <= x_remaining THEN x_remaining - Len(list) ELSE x_remaining
  /\ out' = out \o list
  /\ x_status_buf' = <<>>
  /\ x_state' = IF x_remaining' = 0 THEN 0 ELSE 1
  /\ list' = <<>> /\ inList' = FALSE
  /\ UNCHANGED <<stream, overrun, answered, plain>>

EndOfList ==
  /\ inList /\ x_state = 0 /\ list = <<>>
  /\ inList' = FALSE
  /\ UNCHANGED <<x_state, x_remaining, x_status_buf, list, out, stream, overrun, answered,
                 plain>>

-----------------------------------------------------------------------------
(* Specification and properties.                                           *)

HNext ==
  /\ ~overrun
  /\ \/ \E r \in Responses : Respond(r)
     \/ \E n \in 1..Len(stream) : Receive(n)
     \/ StatusByte \/ MessagePart \/ EndOfList

HSpec == HInit /\ [][HNext]_hvars

\* What a response is to give.
Content(r) ==
  <<Status(r)>> \o [i \in DOMAIN r.fields |-> Field(r.fields[i])] \o Message(r)

\* However TCP cuts the responses, in the end of a header or in a message too: what has
\* come out is what the server has sent so far, each response with its code, its fields
\* and its message and none taken for a part of another, as long as the responses are
\* of the kind that httpreceive is made for and the patch does not ask for the next one
\* before it has the last; and of those it writes nothing behind the end of a buffer.
PassesResponses ==
  plain => LET contents == FlattenSeq([i \in DOMAIN answered |-> Content(answered[i])])
           IN  /\ ~overrun
               /\ IsPrefix(out, contents)
               /\ stream = <<>> /\ ~inList => out = contents /\ x_state = 0
=============================================================================
