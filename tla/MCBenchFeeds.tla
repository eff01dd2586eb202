--------------------------- MODULE MCBenchFeeds ---------------------------
(***************************************************************************)
(* BenchFeeds for TLC: frames with every number of bytes in the last word, *)
(* and the one of tests/data/generated_2025_05_02.pcap.                    *)
(***************************************************************************)
EXTENDS BenchFeeds

BenchCaptures == {<<60, 61, 62, 63>>, <<64, 65, 66, 67>>, <<307>>, <<72, 64, 80>>}
============================================================================
