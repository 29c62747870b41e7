-------------------------- MODULE MCGpuboxTimeMap --------------------------
(***************************************************************************)
(* GpuboxTimeMap with two threads: every list of one or two files with the *)
(* contents below, and lists of three whose channels or batches coincide.  *)
(***************************************************************************)
EXTENDS GpuboxTimeMap

CONSTANTS w1, w2

MCWorkers  == {w1, w2}
MCTimes    == {1, 2}
MCBatches  == {0, 1}
MCChannels == {1, 2}

GpuboxFile(b, c, opens, ver, hdus) ==
  [batch |-> b, chan |-> c, opens |-> opens, corrVer |-> ver, hdus |-> hdus]

\* Repeated times, times out of order, weights, missing keys, no data HDU.
Contents == {<<>>, <<1>>, <<1, 2>>, <<2, 1>>, <<1, 1>>, <<1, NoTime>>, <<2, 1, 1>>}
Headers  == {<<0, 1>>, <<0, 2>>, <<1, 1>>}

Sound(hd)  == {GpuboxFile(hd[1], hd[2], TRUE, 2, h) : h \in Contents}
Faulty(hd) == {GpuboxFile(hd[1], hd[2], FALSE, 2, <<1>>)}
              \cup {GpuboxFile(hd[1], hd[2], TRUE, ver, <<1>>) : ver \in {0, 1}}
Any(hd)    == Sound(hd) \cup Faulty(hd)

\* The order of sort_unstable_by_key: files with equal keys in either order.
InOrder(a, b) == a[1] < b[1] \/ (a[1] = b[1] /\ a[2] <= b[2])

Triples ==
  {<<GpuboxFile(0, 1, TRUE, 2, x), GpuboxFile(0, 1, TRUE, 2, y), GpuboxFile(1, 1, TRUE, 2, z)>> :
     x, y, z \in {<<1>>, <<1, 2>>, <<NoTime>>}}

MCFileLists ==
  UNION {{<<f>> : f \in Any(hd)} : hd \in Headers}
  \cup UNION {{<<f, g>> : f \in Any(hd[1]), g \in Any(hd[2])} :
                hd \in {p \in Headers \X Headers : InOrder(p[1], p[2])}}
  \cup Triples
=============================================================================
