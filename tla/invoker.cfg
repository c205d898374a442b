SPECIFICATION FairSpec
CONSTANTS
    n1 = n1
    n2 = n2
    m1 = m1
    m2 = m2
    Environments = {n1, n2}
    Messages = {m1, m2}
    Apps <- MCApps
    Deployments <- MCDeployments
    Guards <- MCGuards
    MaxFaults = 2
INVARIANT NoSilentDrain
INVARIANT SuccessIsEarned
INVARIANT ReceiptNotHostage
PROPERTY QueueDrains
