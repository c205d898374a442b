------------------------------ MODULE MCBucket -------------------------------
(* Instances of Bucket for TLC.                                            *)
EXTENDS Bucket

Apart == [b \in Buckets |-> IF b = Home THEN OwnRegion ELSE "west"]

Plain == {Bare}
Lists == {<<[key |-> 1, version |-> 0], [key |-> 1, version |-> 0], [key |-> 2, version |-> 1]>>}

S3Build(versioned, handle, recorded) ==
    [impl |-> "s3", versioned |-> versioned, handle |-> handle, recorded |-> recorded]
AllBuilds ==
    {S3Build(TRUE, "raw", TRUE), S3Build(FALSE, "raw", FALSE),
     [impl |-> "double", versioned |-> TRUE, handle |-> "raw", recorded |-> TRUE]}
VersionedBuild == {S3Build(TRUE, "raw", TRUE)}
=============================================================================
