CONSTANTS
    Transports = {nostr, ipfs}
    Kinds = {"proof"}
    Preferred = nostr
    MaxRetries = 2
    BufferSize = 2
    ChannelSize = 1
    MaxCachedProofs = 2
    MaxEvents = 3
    MaxDuplicates = 1
SPECIFICATION FairDeliverySpec
PROPERTY
    ProofArrives
