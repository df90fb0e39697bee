------------------------------ MODULE MCLayers ------------------------------
(***************************************************************************)
(* Instances of the tiled layers.  Two compute cores stand for the eight of *)
(* a cluster, and the kernel's eight output channels shrink with them       *)
(* (lanes = num).                                                           *)
(***************************************************************************)
EXTENDS Layers

Conv(clusters, oh, w, f, ci, tile, co, c2c) ==
    [kind |-> "conv2d", clusters |-> clusters, num |-> 2, lanes |-> 2, OH |-> oh, OW |-> w,
     IH |-> oh, IW |-> w, FH |-> f, FW |-> f, pad |-> (f - 1) \div 2, CI |-> ci,
     TILE_CI |-> tile, CO |-> co, cluster2cluster |-> c2c]

Batch(clusters, rows, ci, tile) ==
    [kind |-> "batchnorm", clusters |-> clusters, num |-> 2, OH |-> rows, OW |-> 1,
     IW |-> 1, CI |-> ci, CO |-> ci, TILE_CI |-> tile]

Pool(clusters, h, w, ci, tile) ==
    [kind |-> "maxpool", clusters |-> clusters, num |-> 2, OH |-> h, OW |-> w, FH |-> 2,
     FW |-> 2, IW |-> 2 * w, CI |-> ci, CO |-> ci, TILE_CI |-> tile]

Train(clusters, num, batches, size) ==
    [kind |-> "nnlinear", clusters |-> clusters, num |-> num, batches |-> batches,
     BATCH_SIZE |-> size]

\* Images as narrow as one tile, wider by a part of one and by a whole one;
\* one and two passes over the output channels of a cluster.
PassInstances ==
    <<Conv(1, 2, 3, 3, 1, 1, 4, FALSE), Conv(2, 2, 2, 3, 1, 1, 4, FALSE),
      Conv(1, 1, 4, 5, 1, 1, 2, FALSE), Conv(1, 2, 1, 1, 2, 2, 2, FALSE),
      Batch(2, 4, 4, 2), Batch(1, 2, 4, 4), Pool(2, 2, 2, 4, 2), Pool(1, 1, 3, 2, 2),
      Train(1, 1, 2, 2), Train(1, 2, 2, 1), Train(1, 2, 1, 2), Train(2, 1, 1, 1)>>

\* The compute cores of a cluster all train.
TwoTrain == <<Train(1, 2, 1, 1)>>

\* cluster2cluster switched on, with more rows than clusters.
HandOverInstances ==
    <<[Conv(2, 3, 1, 1, 1, 1, 2, TRUE) EXCEPT !.num = 1, !.lanes = 1]>>

\* The input channels in two tiles.
TiledChannels == <<Conv(1, 1, 2, 1, 2, 1, 2, FALSE)>>

\* More clusters than rows.
IdleCluster == <<Batch(2, 1, 2, 2)>>
=============================================================================
