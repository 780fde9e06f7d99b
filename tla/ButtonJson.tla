----------------------------- MODULE ButtonJson -----------------------------
(***************************************************************************)
(* How a button is written in JSON and read back: FillButtonJson           *)
(* (to_json.cpp) on the way to the browser and to the flash,               *)
(* ConvertButtonJson (from_json.cpp) on the way back, and the text of a    *)
(* beacon's address and UUID between them (command_table.cpp).             *)
(*                                                                         *)
(* A text is a sequence of characters, and a character a number: 0 .. 15   *)
(* a lower-case hexadecimal digit, 16 + d the upper-case one of d \in      *)
(* 10 .. 15, Colon, Dash, and any other number any other character.        *)
(***************************************************************************)
EXTENDS Integers, Sequences, FiniteSets

Colon == 40
Dash == 41

IsXDigit(c) == c < 32
Digit(c) == c % 16

\* The bytes of a structure that nothing has written.
Unwritten == <<>>

-----------------------------------------------------------------------------
(* command_table.cpp                                                       *)

\* Where the digits of each byte are in a text, first and second; all else are separators.
AddressPlaces == <<1, 4, 7, 10, 13, 16>>
UuidPlaces == <<1, 3, 5, 7, 10, 12, 15, 17, 20, 22, 25, 27, 29, 31, 33, 35>>

TextLength(places) == places[Len(places)] + 1
Firsts(places) == {places[k] : k \in DOMAIN places}
Seconds(places) == {places[k] + 1 : k \in DOMAIN places}
ByteAt(places, i) == CHOOSE k \in DOMAIN places : i \in {places[k], places[k] + 1}

Printed(bytes, separator, places) ==
  [i \in 1 .. TextLength(places) |->
     IF i \in Firsts(places) THEN bytes[ByteAt(places, i)] \div 16
     ELSE IF i \in Seconds(places) THEN bytes[ByteAt(places, i)] % 16
     ELSE separator]

\* The bytes of a text of digits and separators; else the target stays unwritten.
Scanned(text, separator, places) ==
  IF /\ Len(text) = TextLength(places)
     /\ \A i \in 1 .. TextLength(places) :
          IF i \in Firsts(places) \cup Seconds(places) THEN IsXDigit(text[i]) ELSE text[i] = separator
  THEN [k \in DOMAIN places |-> 16 * Digit(text[places[k]]) + Digit(text[places[k] + 1])]
  ELSE Unwritten

SerializeAddressToString(address) == Printed(address, Colon, AddressPlaces)
DeserializeAddressToString(text) == Scanned(text, Colon, AddressPlaces)
SerializeUuidToString(uuid) == Printed(uuid, Dash, UuidPlaces)
DeserializeUuidToString(text) == Scanned(text, Dash, UuidPlaces)

-----------------------------------------------------------------------------
(* The button of the table, and the object that stands for it in JSON.     *)

UInt8 == 0 .. 255
UInt16 == 0 .. 65535

KButtons ==
  [type : {"beacon"}, address : [1 .. 6 -> UInt8], uuid : [1 .. 16 -> UInt8],
   major : UInt16, minor : UInt16]
  \cup [type : {"m5", "gpio"}, id : UInt8]

FillButtonJson(item) ==
  CASE item.type = "beacon" ->
         [apple_i_beacon |-> [address |-> SerializeAddressToString(item.address),
                              uuid |-> SerializeUuidToString(item.uuid),
                              major |-> item.major, minor |-> item.minor]]
    [] item.type = "m5" -> [m5_button |-> [id |-> item.id]]
    [] item.type = "gpio" -> [gpio_button |-> [id |-> item.id]]

\* as<uint16_t>() of a number that does not fit is 0.
AsUInt16(n) == IF n \in UInt16 THEN n ELSE 0

Refused == [type |-> "none"]

HasMembers(json, key, members) == members \subseteq DOMAIN json[key]

(***************************************************************************)
(* The results of the two Deserialize functions are not looked at: after a *)
(* malformed address the button is taken, with bytes nobody has written.   *)
(***************************************************************************)
ConvertButtonJson(json) ==
  CASE "apple_i_beacon" \in DOMAIN json ->
         IF HasMembers(json, "apple_i_beacon", {"address", "uuid", "major", "minor"})
         THEN LET beacon == json["apple_i_beacon"]
              IN  [type |-> "beacon",
                   address |-> DeserializeAddressToString(beacon.address),
                   uuid |-> DeserializeUuidToString(beacon.uuid),
                   major |-> AsUInt16(beacon.major), minor |-> AsUInt16(beacon.minor)]
         ELSE Refused
    [] "apple_i_beacon" \notin DOMAIN json /\ "m5_button" \in DOMAIN json ->
         IF HasMembers(json, "m5_button", {"id"})
         THEN [type |-> "m5", id |-> json["m5_button"].id % 256] ELSE Refused
    [] "gpio_button" \in DOMAIN json /\ {"apple_i_beacon", "m5_button"} \cap DOMAIN json = {} ->
         IF HasMembers(json, "gpio_button", {"id"})
         THEN [type |-> "gpio", id |-> json["gpio_button"].id % 256] ELSE Refused
    [] OTHER -> Refused

\* Each of the buttons in data with those that are equal (operator==) to the one read from its JSON.
Taken(data) ==
  {<<b, {c \in DOMAIN data : data[c] = ConvertButtonJson(FillButtonJson(data[b]))}>> :
     b \in DOMAIN data}
=============================================================================
