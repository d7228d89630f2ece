------------------------------- MODULE SampleData -------------------------------
(***************************************************************************)
(* wifi_softap_info_t and the data that the commands put into it.  An ssid *)
(* is the whole char array, so that what follows the terminating zero is   *)
(* part of the state.                                                      *)
(***************************************************************************)
EXTENDS Integers, Sequences

MAX_ARRAY == 20
WIFI_SSID_MAX_LEN == 32
WIFI_BT_MAC_ADDRESS_LEN == 6
IPV4_LEN == 4
IPV6_LEN == 16

Fill(n, b) == [i \in 1..n |-> b]

\* A struct with every byte of its arrays b and every number n: what memory may
\* hold before anything is stored.
Uniform(b, n) ==
  [device_count |-> n, state |-> n, ipv4 |-> Fill(IPV4_LEN, b), ipv6 |-> Fill(IPV6_LEN, b),
   ssid |-> Fill(WIFI_SSID_MAX_LEN + 1, b), bssid |-> Fill(WIFI_BT_MAC_ADDRESS_LEN, b),
   security |-> n, channel |-> b, frequency |-> n]

\* The first bytes of an array replaced by those of s.
Over(array, s) == [i \in DOMAIN array |-> IF i <= Len(s) THEN s[i] ELSE array[i]]

\* Length up to the first zero, at most max.
strnlen(s, max) ==
  CHOOSE n \in 0..max : /\ \A i \in 1..n : s[i] # 0
                        /\ n = max \/ s[n + 1] = 0

\* The bytes that snprintf and strncpy put: "MyAP", and "WiFi-" with a number.
MyAP == <<77, 121, 65, 80>>
Decimal(n) == IF n < 10 THEN <<48 + n>> ELSE <<48 + (n \div 10), 48 + (n % 10)>>
WiFi(n) == <<87, 105, 70, 105, 45>> \o Decimal(n)

getSingleSampleData(count) ==
  [device_count |-> 2 + count, state |-> 2,
   ipv4 |-> <<192, 168, (1 + count) % 256, (100 + count) % 256>>,
   ipv6 |-> Fill(IPV6_LEN, 0),
   ssid |-> Over(Fill(WIFI_SSID_MAX_LEN + 1, 0), MyAP),
   bssid |-> <<222, 173, 190, 239, 0, 1>>,
   security |-> 2, channel |-> (6 + count) % 256, frequency |-> (2437 + count * 5) % 65536]

\* The snprintf stores its own terminating zero over the rest of "MyAP".  A size
\* that is refused leaves the array as it was.
fulfillSampleData(array) ==
  IF Len(array) \notin 1..MAX_ARRAY THEN array
  ELSE [i \in DOMAIN array |->
          [getSingleSampleData(i - 1) EXCEPT !.ssid = Over(@, Append(WiFi(i - 1), 0))]]

\* The array that main clears and fills.
Samples(n) == fulfillSampleData([i \in 1..n |-> Uniform(0, 0)])

\* Two structs hold the same values: their strings, not the bytes behind them.
SameInfo(x, y) ==
  /\ \A f \in DOMAIN x \ {"ssid"} : x[f] = y[f]
  /\ LET n == strnlen(x.ssid, WIFI_SSID_MAX_LEN)
     IN n = strnlen(y.ssid, WIFI_SSID_MAX_LEN) /\ SubSeq(x.ssid, 1, n) = SubSeq(y.ssid, 1, n)
=============================================================================
