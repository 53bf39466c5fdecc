---------------------------- MODULE OscMessage ----------------------------
(***************************************************************************)
(* OSC packets as F53OSC writes and reads them: a message has an address   *)
(* pattern and arguments, a bundle has packets as its elements.  All parts *)
(* fill whole words of four bytes.                                         *)
(*                                                                         *)
(* A string is the sequence of the codes of its characters, of which those *)
(* below 2048 are enough: NSString counts each as one, UTF-8 takes one     *)
(* byte or two.  A number is its four bytes in network order, an integer   *)
(* of the app having been cut to 32 bits.                                  *)
(***************************************************************************)
EXTENDS Naturals, Sequences, SequencesExt

Slash == 47
Hash == 35
Comma == 44
TypeCode == [s |-> 115, b |-> 98, i |-> 105, f |-> 102]
BundlePrefix == <<Hash, 98, 117, 110, 100, 108, 101>> \* #bundle

Rounded(n) == ((n + 3) \div 4) * 4
Zeroes(n) == [i \in 1..n |-> 0]
From(bytes, n) == SubSeq(bytes, n + 1, Len(bytes))

-----------------------------------------------------------------------------
(* Writing.                                                                *)

Utf8(s) ==
  FlattenSeq([i \in DOMAIN s |-> IF s[i] < 128 THEN <<s[i]>>
                                 ELSE <<192 + s[i] \div 64, 128 + (s[i] % 64)>>])

oscStringData(s) == Utf8(s) \o Zeroes(Rounded(Len(Utf8(s)) + 1) - Len(Utf8(s)))

\* The size that is written is that of the blob with its zeroes.
oscBlobData(bytes) ==
  LET size == Rounded(Len(bytes))
  IN  <<0, 0, size \div 256, size % 256>> \o bytes \o Zeroes(size - Len(bytes))

ArgumentData(arg) ==
  CASE arg.type = "s" -> oscStringData(arg.value)
    [] arg.type = "b" -> oscBlobData(arg.value)
    [] OTHER          -> arg.value

messageData(m) ==
  oscStringData(m.address)
    \o oscStringData(<<Comma>> \o [i \in DOMAIN m.args |-> TypeCode[m.args[i].type]])
    \o FlattenSeq([i \in DOMAIN m.args |-> ArgumentData(m.args[i])])

\* The time tag is not read, so its bytes do not matter.
bundleData(elements) ==
  oscStringData(BundlePrefix) \o Zeroes(8)
    \o FlattenSeq([i \in DOMAIN elements |-> oscBlobData(elements[i])])

-----------------------------------------------------------------------------
(* Reading.                                                                *)

\* A byte of UTF-8; lead is the one before if that begins a character.
DecodeByte(state, byte) ==
  IF byte < 128 THEN
    [chars |-> Append(state.chars, byte), lead |-> 0, valid |-> state.valid /\ state.lead = 0]
  ELSE IF byte < 192 THEN
    [chars |-> Append(state.chars, 64 * (state.lead - 192) + byte - 128), lead |-> 0,
     valid |-> state.valid /\ state.lead # 0]
  ELSE [chars |-> state.chars, lead |-> byte, valid |-> state.valid /\ state.lead = 0]

\* (A function, as in ListParts.)
Decoded(utf8) ==
  LET state[n \in 0..Len(utf8)] ==
        IF n = 0 THEN [chars |-> <<>>, lead |-> 0, valid |-> TRUE]
        ELSE DecodeByte(state[n - 1], utf8[n])
  IN  state[Len(utf8)]

\* How many bytes a string took is reckoned from the number of its characters, not of
\* its bytes.
StringOf(read) ==
  LET valid == read.valid /\ read.lead = 0
  IN  [valid |-> valid, value |-> IF valid THEN read.chars ELSE <<>>,
       length |-> Rounded(IF valid THEN Len(read.chars) + 1 ELSE 1)]

\* stringWithOSCStringBytes: up to the first zero.
ReadString(bytes) ==
  LET zeroes == {i \in DOMAIN bytes : bytes[i] = 0} IN
  IF zeroes # {} THEN StringOf(Decoded(SubSeq(bytes, 1, Min(zeroes) - 1)))
  ELSE [valid |-> FALSE, value |-> <<>>, length |-> 4]

\* dataWithOSCBlobBytes: as many bytes as the size says.
ReadBlob(bytes) ==
  LET size == 256 * bytes[3] + bytes[4]
  IN  [valid |-> Contains(bytes, 0), value |-> SubSeq(bytes, 5, 4 + size), length |-> 4 + size]

ReadNumber(bytes) ==
  [valid |-> Len(bytes) >= 4, value |-> SubSeq(bytes, 1, 4), length |-> 4]

WithArgument(state, type, read) ==
  [valid |-> read.valid, rest |-> From(state.rest, read.length),
   args |-> Append(state.args, [type |-> type, value |-> read.value])]

ReadArgument(state, code) ==
  CASE ~state.valid         -> state
    [] code = TypeCode["s"] -> WithArgument(state, "s", ReadString(state.rest))
    [] code = TypeCode["b"] -> WithArgument(state, "b", ReadBlob(state.rest))
    [] code = TypeCode["i"] -> WithArgument(state, "i", ReadNumber(state.rest))
    [] code = TypeCode["f"] -> WithArgument(state, "f", ReadNumber(state.rest))

ReadCodes(codes, start) ==
  LET state[n \in 0..Len(codes)] ==
        IF n = 0 THEN start ELSE ReadArgument(state[n - 1], codes[n])
  IN  state[Len(codes)]

\* The codes are behind the comma.
ReadArguments(types, rest) ==
  ReadCodes(From(types.value, 1),
            [valid |-> types.valid, args |-> <<>>, rest |-> From(rest, types.length)])

\* What the destination takes: the message, or nothing if it cannot be read.
WithArguments(address, read) ==
  IF read.valid THEN <<[address |-> address, args |-> read.args]>> ELSE <<>>

BehindAddress(address, rest) ==
  IF rest = <<>> \/ rest[1] # Comma THEN <<[address |-> address, args |-> <<>>]>>
  ELSE WithArguments(address, ReadArguments(ReadString(rest), rest))

AtAddress(address, bytes) ==
  IF ~address.valid \/ address.length > Len(bytes) THEN <<>>
  ELSE BehindAddress(address.value, From(bytes, address.length))

processMessageData(bytes) == AtAddress(ReadString(bytes), bytes)

OscData == Seq(0..255)

\* What data gives as a packet, and as the elements behind the prefix and the time tag
\* of a bundle: sizes and packets, up to one that is no packet.
Given[data \in OscData] ==
  [what \in {"packet", "elements"} |->
     LET size == 256 * data[3] + data[4] IN
     IF data = <<>> THEN <<>>
     ELSE IF what = "elements" THEN
       IF Len(data) <= 4 \/ size > Len(data) - 4 \/ data[5] \notin {Slash, Hash} THEN <<>>
       ELSE Given[SubSeq(data, 5, 4 + size)]["packet"] \o Given[From(data, 4 + size)]["elements"]
     ELSE IF data[1] = Slash THEN processMessageData(data)
     ELSE IF data[1] = Hash /\ ReadString(data).value = BundlePrefix
          THEN Given[From(data, 16)]["elements"]
     ELSE <<>>]

processOscData(data) == Given[data]["packet"]

-----------------------------------------------------------------------------
(* What may be sent.  setAddressPattern: takes nothing that does not begin *)
(* with a slash; the app has no strings with a zero in them, and what it   *)
(* sends fits in two bytes of a size.                                      *)

Characters == 1..2047
OscArguments ==
  [type : {"s"}, value : Seq(Characters)]
    \cup {arg \in [type : {"b"}, value : OscData] : Len(arg.value) <= 65532}
    \cup {arg \in [type : {"i", "f"}, value : OscData] : Len(arg.value) = 4}

OscMessages ==
  {m \in [address : Seq(Characters), args : Seq(OscArguments)] :
     m.address # <<>> /\ m.address[1] = Slash /\ Len(messageData(m)) <= 65532}

-----------------------------------------------------------------------------
(* What a message is to be when it has been read.                          *)

\* A blob comes back with the zeroes that filled its last word.
AsRead(m) ==
  [m EXCEPT !.args =
     [i \in DOMAIN m.args |->
        IF m.args[i].type = "b"
        THEN [type |-> "b", value |-> From(oscBlobData(m.args[i].value), 4)]
        ELSE m.args[i]]]

\* Counted in characters or in bytes, each string fills the same number of words; else
\* what comes behind it is read in the wrong place.
IsAligned(m) ==
  \A s \in {m.address} \cup {m.args[i].value : i \in {j \in DOMAIN m.args : m.args[j].type = "s"}} :
    Rounded(Len(s) + 1) = Len(oscStringData(s))
=============================================================================
