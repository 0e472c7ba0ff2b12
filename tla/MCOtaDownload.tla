--------------------------- MODULE MCOtaDownload ---------------------------
\* A file of two blocks, one of which looks like the head of a frame, three
\* sequence numbers for at least five requests, two transmissions of each, one
\* fault, and a user who acts three times: a download, another one after or
\* instead of it, a port picked in between.
EXTENDS OtaDownload, Bitwise

MCFile == <<7, 85>>

\* The exclusive or of the protocol is that of bytes: of every byte and every
\* byte with one bit set, none, all, or every other bit.
ASSUME XorIsBitwise ==
    \A a \in 0..255, b \in {2 ^ i : i \in 0..7} \cup {0, 85, 170, 255} :
        XorBytes(a, b) = a ^^ b

\* The OTA file, with sectors of 20 bytes and 50 as the shortest length of an
\* image; the version of the files, and a file of every length up to 45 bytes.
O == INSTANCE OtaFile WITH SECTOR_SIZE <- 20, MIN_FILE_LEN <- 50

FileVersion == [main |-> 1, minor |-> 2, rev |-> 3, build |-> 258]
RawFile(n) == [i \in 1..n |-> (i * 37 + n) % 256]
Lengths == 0..45

\* One step of CRC-16/CCITT by division: the polynomial x^16 + x^12 + x^5 + 1.
RECURSIVE Divided(_, _)
Divided(crc, bits) ==
    IF bits = 0 THEN crc
    ELSE Divided(IF crc >= 32768 THEN ((crc * 2) % 65536) ^^ 4129 ELSE crc * 2, bits - 1)

\* CalculateCrc is CRC-16/CCITT: the crc of every byte after every crc of one bit
\* or of 256 others is the remainder of the division.
ASSUME CrcIsCcitt ==
    \A crc \in {2 ^ i : i \in 0..15} \cup {0, 65535}, byte \in 0..255 :
        O!CrcOfByte(crc, byte) = Divided(crc ^^ (byte * 256), 8)

\* ConvertToOta calculates the crc of the code sector by sector: the same crc.
ASSUME CrcInPieces ==
    \A n \in {0, 1, 19, 20, 21, 45} : \A cut \in 0..n :
        LET file == RawFile(n)
        IN  O!CalculateCrc(O!CalculateCrc(O!CRC_KEY, SubSeq(file, 1, cut)),
                           SubSeq(file, cut + 1, n)) = O!CalculateCrc(O!CRC_KEY, file)

\* An image is whole sectors that begin with the file's bytes and end with the
\* one sector that describes them; a longer one only has more padding.
ASSUME ImageHoldsTheFile ==
    \A n \in Lengths, more \in {0, 40} :
        LET file  == RawFile(n)
            ota == O!ConvertToOta(file, FileVersion, IF more = 0 THEN 0 ELSE O!Allign(n) + more)
            info  == O!OtaFileInfo(ota)
        IN  /\ Len(ota) % 20 = 0 /\ Len(ota) = O!Allign(n) + more
            /\ SubSeq(ota, 1, n) = file
            /\ \A i \in (n + 1)..(Len(ota) - 20) : ota[i] = 255
            /\ info.binLen = <<n, 0, 0, 0>> /\ info.build = <<2, 1, 0, 0>>
            /\ info.codeCrc = O!Stored(O!CalculateCrc(O!CRC_KEY, file), 4)

\* An image of the length Open asks for is recognised, shown with its version,
\* sent as it is and not converted again; a shorter one is taken as raw:
\* Generate and Download would wrap it in a second image.
ASSUME ImagesAreRecognised ==
    \A n \in Lengths :
        LET other == [FileVersion EXCEPT !.main = 9]
        IN  \A ota \in {O!ConvertToOta(RawFile(n), FileVersion, 0)} :
            IF Len(ota) >= 50
            THEN /\ O!Generated(ota, other, TRUE) = {} /\ O!Sent(ota, other, TRUE) = {ota}
                 /\ O!ShownVersion(ota, other).main = 1
            ELSE O!ShownVersion(ota, other).editable /\ O!Sent(ota, other, FALSE) = {}

\* Open notices every byte changed in the last sector, but its crc says nothing
\* of the code before it.
ASSUME OnlyTheLastSectorIsChecked ==
    LET ota == O!ConvertToOta(RawFile(45), FileVersion, 0)
    IN  \A i \in DOMAIN ota : \A byte \in {1, 128, 255} :
            O!IsCrcedFile([ota EXCEPT ![i] = (@ + byte) % 256]) <=> i <= Len(ota) - 20

\* The BLE image loses the file's first two bytes and keeps the others and the
\* length; its code crc covers the padded head sector and the rest.
ASSUME BleImageHoldsTheRest ==
    \A n \in 18..45 :
        LET file  == RawFile(n)
        IN  \A ota \in {O!ConvertToBleOta(file, FileVersion, 0)} :
            /\ Len(ota) % 20 = 0
            /\ SubSeq(ota, 1, 16) = SubSeq(file, 3, 18)
            /\ SubSeq(ota, 17, 20) = <<n, 0, 0, 0>>
            /\ SubSeq(ota, 21, 2 + n) = SubSeq(file, 19, n)
            /\ O!OtaFileInfo(ota).codeCrc = O!Stored(O!CalculateCrc(O!CRC_KEY,
                                        SubSeq(ota, 1, 20) \o SubSeq(file, 19, n)), 4)
            /\ (Len(ota) >= 50) = (O!SentBle(ota, FileVersion, FALSE) # {})
            /\ O!SentBle(file, FileVersion, TRUE) = O!GeneratedBle(file, FileVersion, TRUE)
            /\ O!ConvertToBleOta([file EXCEPT ![1] = 0, ![2] = 0], FileVersion, 0) = ota

\* The conversion in place describes the image only when the file is whole
\* sectors, and its code crc is never the code's.
ASSUME InPlaceIgnoresTheCode ==
    \A n \in 1..45 :
        LET ota == O!ConvertInPlace(RawFile(n), FileVersion, 0)
        IN  IF n % 20 = 0
            THEN /\ O!OtaFileInfo(ota).codeCrc = O!Stored(O!CRC_KEY, 4)
                 /\ O!IsCrcedFile(ota) = (n = 40)
            ELSE Len(ota) = n + (n % 20) /\ ~O!IsCrcedFile(ota)

\* Appending data and then its crc sector by sector gives the file and its crc;
\* of data longer than a sector the beginning is appended again.
ASSUME AppendedInTurn ==
    \A n \in 0..30 :
        LET file == O!AppendFile(O!AppendUpTo(RawFile(5), 255, 20), RawFile(n))
            more == O!AppendData(file, RawFile(25))
        IN  /\ Len(file) = 20 + n
            /\ O!CrcFrom(file, 20) = O!CalculateCrc(O!CRC_KEY, RawFile(n))
            /\ SubSeq(more, 21 + n, 40 + n) = SubSeq(RawFile(25), 1, 20)
            /\ SubSeq(more, 41 + n, 45 + n) = SubSeq(RawFile(25), 1, 5)
            /\ O!AppendByte(more, 255, 3) = O!AppendUpTo(more, 255, 48 + n)
=============================================================================
