------------------------------- MODULE IpClient ------------------------------
(***************************************************************************)
(* IPv4 datagrams over the subnetwork (annex_f/ip_client.py): which ones   *)
(* are sent, with which service, and how one that is too long is cut.      *)
(***************************************************************************)
EXTENDS Layout

Word(octets, at) == octets[at + 1] * 256 + octets[at + 2]
Total(words) ==
  LET upTo[n \in 0 .. Len(words)] == IF n = 0 THEN 0 ELSE upTo[n - 1] + words[n]
  IN  upTo[Len(words)]
Folded(header) ==
  LET total == Total([i \in 1 .. Len(header) \div 2 |-> Word(header, 2 * i - 2)])
      once == (total \div 65536) + (total % 65536)
  IN  (once + (once \div 65536)) % 65536
(* _ip_checksum.  A header is a number of words of 4 octets.               *)
IpChecksum(header) == 65535 - Folded(header)

HeaderLength(datagram) == (datagram[1] % 16) * 4
MoreFragments == 32
DontFragment == 64
Put(header, at, word) == [header EXCEPT ![at + 1] = word \div 256, ![at + 2] = word % 256]
WithChecksum(header) ==
  LET zero == Put(header, 10, 0)
  IN  Put(zero, 10, IpChecksum(zero))

(* _fragment_ipv4.  It does not end when the MTU leaves no room for 8      *)
(* octets after the header, and what is cut again loses its MF flag: the   *)
(* datagrams tried are not like that.                                      *)
Fragments(datagram, mtu) ==
  LET ihl == HeaderLength(datagram)
      header == SubSeq(datagram, 1, ihl)
      payload == Rest(datagram, ihl)
      room == ((mtu - ihl) \div 8) * 8
      n == (Len(payload) + room - 1) \div room
      chunk(i) == SubSeq(payload, (i - 1) * room + 1, IF i < n THEN i * room ELSE Len(payload))
      units(i) == (Word(header, 6) % 8192) + (i - 1) * (room \div 8)
      flags(i) == IF i < n THEN MoreFragments * 256 ELSE 0
      head(i) == Put(Put(header, 2, ihl + Len(chunk(i))), 6, flags(i) + (units(i) % 8192))
  IN  [i \in 1 .. n |-> WithChecksum(head(i)) \o chunk(i)]

(* _DSCP_PRIORITY_MAP, _map_dscp, _map_tos_rfc1349: the three upper bits   *)
(* give the priority; in TOS mode an individual datagram goes without ARQ  *)
(* when it asks for little delay or little cost and nothing else.          *)
PriorityOf(tos) == 2 * (tos \div 32)
TosBits(tos) == {i \in 1 .. 4 : (tos \div 2^i) % 2 = 1}
Arq(tos, isMulticast, qos) ==
  ~isMulticast /\ (qos = "tos" => TosBits(tos) \notin {{4}, {1}})

(* send_ip_datagram: the U_PDUs it asks for, none when it is not sent.     *)
SendIp(datagram, mtu, known, qos) ==
  LET version == datagram[1] \div 16
      length == Word(datagram, 2)
      whole == (datagram[7] \div DontFragment) % 2 = 1
      isMulticast == datagram[17] \div 16 = 14
      request(updu) == [updu |-> updu, priority |-> PriorityOf(datagram[2]),
                        arq |-> Arq(datagram[2], isMulticast, qos)]
  IN  IF Len(datagram) < 20 \/ version # 4 \/ ~known \/ (whole /\ length > mtu) THEN <<>>
      ELSE IF length <= mtu THEN <<request(datagram)>>
      ELSE LET parts == Fragments(datagram, mtu) IN [i \in DOMAIN parts |-> request(parts[i])]

Datagram(words, tos, flags, offset, first, n) ==
  LET ihl == 4 * words
      bare == <<64 + words, tos, (ihl + n) \div 256, (ihl + n) % 256, 255, 254,
                flags + (offset \div 256), offset % 256, 64, 17, 0, 0, 10, 255, 255, 1, first, 0, 0, 2>>
                \o [i \in 1 .. ihl - 20 |-> 255]
  IN  WithChecksum(Kept(bare)) \o [i \in 1 .. n |-> i]
Datagrams ==
  {[words |-> w, tos |-> t, flags |-> f, offset |-> o, first |-> a, n |-> n, mtu |-> m] :
     w \in {5, 6}, t \in {0, 2, 16, 152}, f \in {0, DontFragment}, o \in {0, 300},
     a \in {10, 224}, n \in {0, 8, 17, 40}, m \in {36}}

(* A datagram arrives as it was sent: whole, or in fragments each of which *)
(* fits, holds, and says where it belongs and whether it is the last; one  *)
(* that may not be cut is sent whole or not at all; a group is never       *)
(* addressed with ARQ.                                                     *)
DatagramArrives(d) ==
  LET datagram == Kept(Datagram(d.words, d.tos, d.flags, d.offset, d.first, d.n))
      ihl == 4 * d.words
      holds(f) == Folded(SubSeq(f, 1, ihl)) = 65535
  IN  \A qos \in {"dscp", "tos"} :
        LET sent == SendIp(datagram, d.mtu, TRUE, qos)
            at(i) == 8 * ((Word(sent[i].updu, 6) % 8192) - d.offset)
        IN  /\ sent # <<>> \/ d.flags = DontFragment
            /\ d.flags = DontFragment => Len(sent) <= 1
            /\ d.first = 224 => \A i \in DOMAIN sent : ~sent[i].arq
            /\ \A i \in DOMAIN sent :
                 LET f == sent[i].updu
                 IN  /\ Len(f) <= d.mtu /\ Len(f) = Word(f, 2) /\ holds(f)
                     /\ Rest(f, ihl) = SubSeq(Rest(datagram, ihl), at(i) + 1, at(i) + Len(f) - ihl)
                     /\ (f[7] \div MoreFragments) % 2 = (IF i < Len(sent) THEN 1 ELSE 0)
            /\ sent # <<>> => /\ at(1) = 0
                              /\ \A i \in 2 .. Len(sent) :
                                   at(i) = at(i - 1) + Len(sent[i - 1].updu) - ihl
                              /\ at(Len(sent)) + Len(sent[Len(sent)].updu) - ihl = d.n
=============================================================================
